---- MODULE Spec2Model ----
(***************************************************************************)
(* A model of the Ligetron Rust SDK (sdk/rust/src): the constraint-tracked *)
(* field element Bn254Fr, the oblivious selectors mux / mux2, the Baby     *)
(* Jubjub group law and windowed scalar multiplication, and EdDSA          *)
(* verification.                                                           *)
(*                                                                         *)
(* The backend engine is reached by the SDK only through FFI calls.  It is *)
(* modelled as a store of slots: every _bn254fr_alloc returns a slot id    *)
(* that was never handed out before, so a stale handle stays               *)
(* distinguishable from a newly allocated one.  Field values are computed  *)
(* in a prime field of FIELD_P elements in place of the 254-bit BN254      *)
(* scalar field.                                                           *)
(***************************************************************************)
EXTENDS Integers, Sequences, FiniteSets, TLC

VARIABLES store, pc, inp

vars == <<store, pc, inp>>

(***************************************************************************)
(* The field.                                                              *)
(***************************************************************************)
FIELD_P == 13

Fp == 0..(FIELD_P - 1)

\* x^(-1) mod p; the backend's result for 0 is not defined by the SDK and
\* no action of the model divides by 0.
InvF(x) == IF x % FIELD_P = 0 THEN 0
           ELSE CHOOSE y \in 1..(FIELD_P - 1) : (x * y) % FIELD_P = 1

\* Bitwise and of two naturals.
RECURSIVE BitAnd(_, _)
BitAnd(x, y) ==
    IF x = 0 \/ y = 0 THEN 0
    ELSE (x % 2) * (y % 2) + 2 * BitAnd(x \div 2, y \div 2)

\* The value a backend arithmetic routine leaves in its output slot.
ApplyOp(op, x, y) ==
    CASE op = "addmod" -> (x + y) % FIELD_P
      [] op = "band"   -> BitAnd(x, y)
      [] op = "submod" -> (x + FIELD_P - y) % FIELD_P
      [] op = "mulmod" -> (x * y) % FIELD_P
      [] op = "divmod" -> (x * InvF(y)) % FIELD_P
      [] op = "negmod" -> (FIELD_P - x) % FIELD_P
      [] op = "invmod" -> InvF(x)

(***************************************************************************)
(* The backend store and the table of live Bn254Fr objects.                *)
(*   val    value of every slot ever allocated, by slot id                 *)
(*   live   slots allocated and not freed                                  *)
(*   el     live Bn254Fr objects by name: handle h, constrained flag c     *)
(*   log    FFI calls made, in order (values are not logged)               *)
(*   failed a failing assertion was raised                                 *)
(*   ovw    a backend write targeted the slot of a bound object            *)
(*   dfree  a slot that was not live was freed                             *)
(***************************************************************************)
EmptyStore ==
    [val |-> <<>>, live |-> {}, el |-> <<>>, log |-> <<>>,
     failed |-> FALSE, ovw |-> FALSE, dfree |-> FALSE]

\* The element of a one-element set.  A sequence of steps binds every
\* intermediate store as S \in {e}, which computes e once wherever S is
\* used; the steps of such a sequence are listed from the last to the first.
Only(s) == CHOOSE r \in s : TRUE

Log(S, e) == [S EXCEPT !.log = Append(@, e)]

H(S, n) == S.el[n].h

V(S, n) == S.val[S.el[n].h]

IsBoundSlot(S, h) == \E n \in DOMAIN S.el : S.el[n].h = h /\ S.el[n].c

\* _bn254fr_alloc: a slot never handed out before, holding 0.
Alloc(S0) ==
    Only({
        [S EXCEPT !.val = Append(@, 0),
          !.live = @ \cup {Len(S.val) + 1},
          !.log = Append(@, <<"alloc", Len(S.val) + 1>>)]
        : S \in {S0}})

\* _bn254fr_free
Free(S0, h) ==
    Only({
        [S EXCEPT !.live = @ \ {h},
          !.val[h] = 0,
          !.dfree = @ \/ (h \notin S.live),
          !.log = Append(@, <<"free", h>>)]
        : S \in {S0}})

\* Any backend routine storing v into slot h.
Write(S, h, v) ==
    [S EXCEPT !.val[h] = v, !.ovw = @ \/ IsBoundSlot(S, h)]

is_constrained(S, n) == S.el[n].c

set_constrained(S0, n, b) == Only({
                                 [S EXCEPT !.el[n].c = b]
                                 : S \in {S0}})

\* A Bn254Fr object named n comes into / goes out of existence.
Bind(S, n, h, c) == [S EXCEPT !.el = (n :> [h |-> h, c |-> c]) @@ @]

Unbind(S, n) == [S EXCEPT !.el = [m \in (DOMAIN @) \ {n} |-> @[m]]]

\* impl Drop for Bn254Fr
drop(S0, n) == Only({
                   Unbind(Free(S, H(S, n)), n)
                   : S \in {S0}})

\* Bn254Fr::new
new(S0, n) == Only({
                  Bind(S, n, Len(S.val), FALSE)
                  : S \in {Alloc(S0)}})

handle_swap(S0, a, b) ==
    Only({
        [S EXCEPT !.el[a].h = S.el[b].h, !.el[b].h = S.el[a].h]
        : S \in {S0}})

\* _bn254fr_set_u32 / _bn254fr_set_u64 / _bn254fr_set_str / _bn254fr_set_bytes
BackendSet(S0, n, v) ==
    Only({
        Write(Log(S, <<"set", H(S, n)>>), H(S, n), v % FIELD_P)
        : S \in {S0}})

\* Bn254Fr::from_u32 (from_u64, from_c_str, from_str alike): new() allocates,
\* then the constructor allocates again into the same handle field.
from_u32(S0, n, v) ==
    Only({
        BackendSet([S EXCEPT !.el[n].h = Len(S.val)], n, v)
        : S \in {Alloc(new(S0, n))}})

\* Bn254Fr::from_str, through from_c_str: the same two allocations.
from_str(S0, n, v) == from_u32(S0, n, v)

\* _bn254fr_copy
BackendCopy(S0, dst, src) ==
    Only({
        Write(Log(S, <<"copy", H(S, dst), H(S, src)>>), H(S, dst), V(S, src))
        : S \in {S0}})

\* _bn254fr_addmod, _bn254fr_submod, ... : out = a op b
BackendBinary(S0, op, out, a, b) ==
    Only({
        Write(Log(S, <<op, H(S, out), H(S, a), H(S, b)>>),
          H(S, out), ApplyOp(op, V(S, a), V(S, b)))
        : S \in {S0}})

\* _bn254fr_invmod, _bn254fr_negmod: out = op a
BackendUnary(S0, op, out, a) ==
    Only({
        Write(Log(S, <<op, H(S, out), H(S, a)>>),
          H(S, out), ApplyOp(op, V(S, a), 0))
        : S \in {S0}})

\* The four constraint primitives: the constraint is recorded, and the run
\* fails when the values do not satisfy it.
BackendAssertEqual(S0, a, b) ==
    Only({
        [Log(S, <<"assert_equal", H(S, a), H(S, b)>>)
          EXCEPT !.failed = @ \/ (V(S, a) # V(S, b))]
        : S \in {S0}})

BackendAssertAdd(S0, out, a, b) ==
    Only({
        [Log(S, <<"assert_add", H(S, out), H(S, a), H(S, b)>>)
          EXCEPT !.failed = @ \/ (V(S, out) # (V(S, a) + V(S, b)) % FIELD_P)]
        : S \in {S0}})

BackendAssertMul(S0, out, a, b) ==
    Only({
        [Log(S, <<"assert_mul", H(S, out), H(S, a), H(S, b)>>)
          EXCEPT !.failed = @ \/ (V(S, out) # (V(S, a) * V(S, b)) % FIELD_P)]
        : S \in {S0}})

BackendAssertMulc(S0, out, a, k) ==
    Only({
        [Log(S, <<"assert_mulc", H(S, out), H(S, a), H(S, k)>>)
          EXCEPT !.failed = @ \/ (V(S, out) # (V(S, a) * V(S, k)) % FIELD_P)]
        : S \in {S0}})

\* Bn254Fr::copy: the value of src is stored through self's handle as it is.
copy(S0, self, src) == BackendCopy(S0, self, src)

\* Bn254Fr::clear: a bound element gives its slot back and takes a new one.
clear(S0, n) ==
    Only({
        IF is_constrained(S, n)
          THEN Only({
                   set_constrained([S1 EXCEPT !.el[n].h = Len(S1.val)], n, FALSE)
                   : S1 \in {Alloc(Free(S, H(S, n)))}})
          ELSE S
        : S \in {S0}})

\* Bn254Fr::set_u32 (set_u64, set_str, set_bytes_little, set_bytes_big alike)
set_u32(S0, n, v) == BackendSet(clear(S0, n), n, v)

\* A clone that emits no constraint and is always fresh.
clone_plain(S0, src, dst) == BackendCopy(new(S0, dst), dst, src)

\* impl Clone for Bn254Fr: dst names the returned object.
clone(S0, src, dst) ==
    Only({
        IF is_constrained(S, src)
          THEN set_constrained(BackendAssertEqual(S, dst, src), dst, TRUE)
          ELSE S
        : S \in {BackendCopy(new(S0, dst), dst, src)}})

\* api::assert_one on a boolean
assert_one(S0, b) ==
    Only({
        [Log(S, <<"assert_one", b>>) EXCEPT !.failed = @ \/ ~b]
        : S \in {S0}})

\* A comparison that is strict where lte is not.
lt_strict(S, a, b) == V(S, a) < V(S, b)

\* bn254fr::lte: the values compared as integers in [0, p)
lte(S, a, b) == V(S, a) <= V(S, b)

(***************************************************************************)
(* Bit decomposition and composition.  The elements of a Vec or slice      *)
(* named pre are the objects pre[0], pre[1], ...                           *)
(***************************************************************************)
MAX_BITS == 254

ElemName(pre, i) == pre \o "[" \o ToString(i) \o "]"

ElemNames(pre, count) == {ElemName(pre, i) : i \in 0..(count - 1)}

\* An object changes its owner: the value is moved, nothing is freed.
Move(S0, from, to) ==
    Only({
        Unbind(Bind(S, to, S.el[from].h, S.el[from].c), from)
        : S \in {S0}})

\* Clones of elem become the elements lo .. hi-1, in index order (the range
\* is split in halves to keep the evaluation shallow).
RECURSIVE VecFill(_, _, _, _, _)
VecFill(S0, elem, pre, lo, hi) ==
    IF lo >= hi THEN S0
    ELSE IF hi = lo + 1 THEN clone(S0, elem, ElemName(pre, lo))
    ELSE Only({
             VecFill(S, elem, pre, (lo + hi) \div 2, hi)
             : S \in {VecFill(S0, elem, pre, lo, (lo + hi) \div 2)}})

\* vec![elem; count]: count - 1 clones of elem, then elem itself as the last
\* element; with count = 0 elem is dropped.
vec_from_elem(S0, elem, pre, count) ==
    Only({
        IF count = 0 THEN drop(S, elem)
          ELSE Move(S, elem, ElemName(pre, count - 1))
        : S \in {VecFill(S0, elem, pre, 0, count - 1)}})

\* A range check that lets one more bit through.
OutOfRangeLoose(count) == count < 1 \/ count > MAX_BITS + 1

\* The range check of to_bits and from_bits_checked.
OutOfRange(count) == count < 1 \/ count > MAX_BITS

\* Bit i of a value below 2^31.
BitOf(v, i) == IF i > 30 THEN 0 ELSE (v \div (2 ^ i)) % 2

Fits(v, count) == count > 30 \/ v < 2 ^ count

\* for i in 0..count { bits[i].set_constrained(true) }
MarkAll(S0, pre, count) ==
    Only({
        [S EXCEPT !.el = [n \in DOMAIN @ |->
          IF n \in ElemNames(pre, count) THEN [@[n] EXCEPT !.c = TRUE] ELSE @[n]]]
        : S \in {S0}})

\* _bn254fr_to_bits_checked: slot of pre[i] receives bit i of a, and the
\* bits are bound to a, which fails when a does not fit in count bits.
BackendToBits(S0, pre, a, count) ==
    Only({
        LET hs == [i \in 0..(count - 1) |-> H(S, ElemName(pre, i))]
              at == [h \in {hs[i] : i \in DOMAIN hs} |-> CHOOSE i \in DOMAIN hs : hs[i] = h]
          IN  [Log(S, <<"to_bits_checked", H(S, a), count>>) EXCEPT
                  !.val = [h \in DOMAIN @ |->
                              IF h \in DOMAIN at THEN BitOf(V(S, a), at[h]) ELSE @[h]],
                  !.ovw = @ \/ \E h \in DOMAIN at : IsBoundSlot(S, h),
                  !.failed = @ \/ ~Fits(V(S, a), count)]
        : S \in {S0}})

\* 2^n in the field (2^(p-1) = 1).
Pow2Mod(n) == (2 ^ (n % (FIELD_P - 1))) % FIELD_P

\* The field value of the bits pre[lo..hi-1], bit lo lowest.
RECURSIVE ComposeBits(_, _, _, _)
ComposeBits(S, pre, lo, hi) ==
    IF lo >= hi THEN 0
    ELSE IF hi = lo + 1 THEN V(S, ElemName(pre, lo))
    ELSE LET mid == (lo + hi) \div 2
         IN  (ComposeBits(S, pre, lo, mid)
                + Pow2Mod(mid - lo) * ComposeBits(S, pre, mid, hi)) % FIELD_P

\* _bn254fr_from_bits_checked: out receives the value composed of the bits
\* and is bound to them, which fails when an element is not a bit.
BackendFromBits(S0, out, pre, count) ==
    Only({
        [Write(Log(S, <<"from_bits_checked", H(S, out), count>>),
             H(S, out), ComposeBits(S, pre, 0, count))
          EXCEPT !.failed = @ \/ \E n \in ElemNames(pre, count) : V(S, n) \notin {0, 1}]
        : S \in {S0}})

\* Bn254Fr::to_bits: the returned Vec is named pre.
to_bits(S0, self, count, pre) ==
    Only({
        IF OutOfRange(count) THEN assert_one(S1, FALSE)
          ELSE Only({
                   set_constrained(MarkAll(S2, pre, count), self, TRUE)
                   : S2 \in {BackendToBits(S1, pre, self, count)}})
        : S1 \in {vec_from_elem(new(S0, "vec.elem"), "vec.elem", pre, count)}})

\* Bn254Fr::from_bits_checked on the slice pre of length count; out names
\* the returned element.
from_bits_checked(S0, pre, count, out) ==
    IF OutOfRange(count) THEN new(assert_one(S0, FALSE), out)
    ELSE Only({
             set_constrained(MarkAll(S, pre, count), out, TRUE)
             : S \in {BackendFromBits(new(S0, out), out, pre, count)}})

(***************************************************************************)
(* The operation helper macros.                                            *)
(***************************************************************************)
bn254fr_unary(S0, op, out, a) ==
    Only({
        IF is_constrained(S, out)
          THEN Only({Only({Only({Only({
                   drop(S4, "unary.tmp")
                   : S4 \in {set_constrained(S3, out, FALSE)}})
                   : S3 \in {handle_swap(S2, "unary.tmp", out)}})
                   : S2 \in {BackendUnary(S1, op, "unary.tmp", a)}})
                   : S1 \in {new(S, "unary.tmp")}})
          ELSE BackendUnary(S, op, out, a)
        : S \in {S0}})

\* A binary macro that always writes through the handle of out.
bn254fr_binary_direct(S0, op, out, a, b) == BackendBinary(S0, op, out, a, b)

bn254fr_binary(S0, op, out, a, b) ==
    Only({
        IF is_constrained(S, out)
          THEN Only({Only({Only({Only({
                   drop(S4, "binary.tmp")
                   : S4 \in {set_constrained(S3, out, FALSE)}})
                   : S3 \in {handle_swap(S2, "binary.tmp", out)}})
                   : S2 \in {BackendBinary(S1, op, "binary.tmp", a, b)}})
                   : S1 \in {new(S, "binary.tmp")}})
          ELSE BackendBinary(S, op, out, a, b)
        : S \in {S0}})

(***************************************************************************)
(* Constraint assertions of Bn254Fr.                                       *)
(***************************************************************************)
assert_equal(S, a, b) ==
    set_constrained(set_constrained(BackendAssertEqual(S, a, b), a, TRUE), b, TRUE)

\* An assert_add that leaves its operand b unmarked.
assert_add_partial(S, out, a, b) ==
    Only({
        set_constrained(set_constrained(S1, a, TRUE), out, TRUE)
        : S1 \in {BackendAssertAdd(S, out, a, b)}})

assert_add(S, out, a, b) ==
    Only({
        set_constrained(set_constrained(set_constrained(S1, a, TRUE), b, TRUE), out, TRUE)
        : S1 \in {BackendAssertAdd(S, out, a, b)}})

assert_mul(S, out, a, b) ==
    Only({
        set_constrained(set_constrained(set_constrained(S1, a, TRUE), b, TRUE), out, TRUE)
        : S1 \in {BackendAssertMul(S, out, a, b)}})

assert_mulc(S, out, a, k) ==
    Only({
        set_constrained(set_constrained(S1, a, TRUE), out, TRUE)
        : S1 \in {BackendAssertMulc(S, out, a, k)}})

(***************************************************************************)
(* Checked operations, free-function forms.                                *)
(***************************************************************************)
addmod_checked(S, out, a, b) ==
    assert_add(bn254fr_binary(S, "addmod", out, a, b), out, a, b)

submod_checked(S, out, a, b) ==
    assert_add(bn254fr_binary(S, "submod", out, a, b), a, out, b)

mulmod_checked(S, out, a, b) ==
    assert_mul(bn254fr_binary(S, "mulmod", out, a, b), out, a, b)

mulmod_constant_checked(S, out, a, k) ==
    assert_mulc(bn254fr_binary(S, "mulmod", out, a, k), out, a, k)

divmod_checked(S, out, a, b) ==
    assert_mul(bn254fr_binary(S, "divmod", out, a, b), a, out, b)

divmod_constant_checked(S, out, a, k) ==
    assert_mulc(bn254fr_binary(S, "divmod", out, a, k), a, out, k)

negmod_checked(S, out, a) ==
    Only({Only({Only({
        drop(S3, "neg.zero")
        : S3 \in {assert_add(S2, "neg.zero", out, a)}})
        : S2 \in {bn254fr_unary(S1, "negmod", out, a)}})
        : S1 \in {from_u32(S, "neg.zero", 0)}})

invmod_checked(S, out, a) ==
    Only({Only({Only({
        drop(S3, "inv.one")
        : S3 \in {assert_mul(S2, "inv.one", out, a)}})
        : S2 \in {bn254fr_unary(S1, "invmod", out, a)}})
        : S1 \in {from_u32(S, "inv.one", 1)}})

\* The free-function checked operation named kind.
CheckedFn(S, kind, out, a, b) ==
    CASE kind = "add"  -> addmod_checked(S, out, a, b)
      [] kind = "sub"  -> submod_checked(S, out, a, b)
      [] kind = "mul"  -> mulmod_checked(S, out, a, b)
      [] kind = "mulc" -> mulmod_constant_checked(S, out, a, b)
      [] kind = "div"  -> divmod_checked(S, out, a, b)
      [] kind = "divc" -> divmod_constant_checked(S, out, a, b)

(***************************************************************************)
(* Checked operations, in-place forms.                                     *)
(***************************************************************************)
binary_constrained(S, kind, out, a) ==
    Only({Only({Only({Only({
        drop(S4, "constrained.tmp")
        : S4 \in {set_constrained(S3, out, TRUE)}})
        : S3 \in {handle_swap(S2, out, "constrained.tmp")}})
        : S2 \in {CheckedFn(S1, kind, "constrained.tmp", out, a)}})
        : S1 \in {new(S, "constrained.tmp")}})

unary_constrained(S, kind, out, a) ==
    Only({Only({Only({Only({
        drop(S4, "constrained.tmp")
        : S4 \in {set_constrained(S3, out, TRUE)}})
        : S3 \in {handle_swap(S2, out, "constrained.tmp")}})
        : S2 \in {IF kind = "neg" THEN negmod_checked(S1, "constrained.tmp", a)
              ELSE invmod_checked(S1, "constrained.tmp", a)}})
        : S1 \in {new(S, "constrained.tmp")}})

(***************************************************************************)
(* Oblivious selection.                                                    *)
(***************************************************************************)
\* A selector with the two data operands exchanged: a1 + cond * (a0 - a1).
mux_exchanged(S, out, cond, a0, a1) ==
    Only({Only({Only({Only({Only({Only({Only({
        drop(S7, "mux.one")
        : S7 \in {drop(S6, "mux.tmp")}})
        : S6 \in {addmod_checked(S5, out, a1, "mux.tmp")}})
        : S5 \in {binary_constrained(S4, "mul", "mux.tmp", cond)}})
        : S4 \in {submod_checked(S3, "mux.tmp", a0, a1)}})
        : S3 \in {new(S2, "mux.tmp")}})
        : S2 \in {Only({
              assert_one(T, lte(T, cond, "mux.one"))
              : T \in {S1}})}})
        : S1 \in {from_u32(S, "mux.one", 1)}})

\* out = a0 + cond * (a1 - a0); locals are dropped in reverse order.
mux(S, out, cond, a0, a1) ==
    Only({Only({Only({Only({Only({Only({Only({
        drop(S7, "mux.one")
        : S7 \in {drop(S6, "mux.tmp")}})
        : S6 \in {addmod_checked(S5, out, a0, "mux.tmp")}})
        : S5 \in {binary_constrained(S4, "mul", "mux.tmp", cond)}})
        : S4 \in {submod_checked(S3, "mux.tmp", a1, a0)}})
        : S3 \in {new(S2, "mux.tmp")}})
        : S2 \in {Only({
              assert_one(T, lte(T, cond, "mux.one"))
              : T \in {S1}})}})
        : S1 \in {from_u32(S, "mux.one", 1)}})

mux2(S, out, s0, s1, a0, a1, a2, a3) ==
    Only({Only({Only({Only({Only({Only({Only({
        drop(drop(drop(S7, "mux2.tmp2"), "mux2.tmp1"), "mux2.one")
        : S7 \in {mux(S6, out, s1, "mux2.tmp1", "mux2.tmp2")}})
        : S6 \in {mux(S5, "mux2.tmp2", s0, a2, a3)}})
        : S5 \in {mux(S4, "mux2.tmp1", s0, a0, a1)}})
        : S4 \in {new(new(S3, "mux2.tmp1"), "mux2.tmp2")}})
        : S3 \in {Only({
              assert_one(T, lte(T, s1, "mux2.one"))
              : T \in {S2}})}})
        : S2 \in {Only({
              assert_one(T, lte(T, s0, "mux2.one"))
              : T \in {S1}})}})
        : S1 \in {from_u32(S, "mux2.one", 1)}})

(***************************************************************************)
(* Baby Jubjub.  A JubjubPoint named p owns the elements p.x and p.y.      *)
(***************************************************************************)
COEF_A == 168700

COEF_D == 168696

X(p) == p \o ".x"

Y(p) == p \o ".y"

\* The point's coordinates as a pair of field values.
PointV(S, p) == <<V(S, X(p)), V(S, Y(p))>>

\* A JubjubPoint goes out of scope: x is dropped, then y.
drop_point(S0, p) == drop(drop(S0, X(p)), Y(p))

\* An assignment target takes over the point built under the name from.
move_point(S0, from, to) == Move(Move(S0, X(from), X(to)), Y(from), Y(to))

\* #[derive(Clone)] for JubjubPoint
clone_point(S0, src, dst) == clone(clone(S0, X(src), X(dst)), Y(src), Y(dst))

\* JubjubPoint::identity
identity(S0, out) == from_u32(from_u32(S0, X(out), 0), Y(out), 1)

\* A comparison of points that looks at x alone.
point_assert_equal_x(S0, p, q) == assert_equal(S0, X(p), X(q))

\* JubjubPoint::assert_equal
point_assert_equal(S0, p, q) ==
    assert_equal(assert_equal(S0, X(p), X(q)), Y(p), Y(q))

\* A mux2 of points with the selectors exchanged.
point_mux2_exchanged(S0, out, s0, s1, b0, b1, b2, b3) ==
    mux2(mux2(new(new(S0, X(out)), Y(out)),
              X(out), s1, s0, X(b0), X(b1), X(b2), X(b3)),
         Y(out), s1, s0, Y(b0), Y(b1), Y(b2), Y(b3))

\* JubjubPoint::mux2
point_mux2(S0, out, s0, s1, b0, b1, b2, b3) ==
    Only({Only({
        mux2(S2, Y(out), s0, s1, Y(b0), Y(b1), Y(b2), Y(b3))
        : S2 \in {mux2(S1, X(out), s0, s1, X(b0), X(b1), X(b2), X(b3))}})
        : S1 \in {new(new(S0, X(out)), Y(out))}})

\* A conversion to Montgomery form with v = (1 - y) / (x * (1 + y)).
to_montgomery_inverted(S0, out, self) ==
    Only({Only({Only({Only({Only({Only({Only({Only({Only({
        drop(drop(drop(drop(S9, "tm.temp"), "tm.one"), "tm.one_minus_y"), "tm.one_plus_y")
        : S9 \in {divmod_checked(S8, Y(out), "tm.one_minus_y", "tm.temp")}})
        : S8 \in {mulmod_checked(S7, "tm.temp", "tm.one_plus_y", X(self))}})
        : S7 \in {new(S6, "tm.temp")}})
        : S6 \in {divmod_checked(S5, X(out), "tm.one_plus_y", "tm.one_minus_y")}})
        : S5 \in {new(new(S4, X(out)), Y(out))}})
        : S4 \in {submod_checked(S3, "tm.one_minus_y", "tm.one", Y(self))}})
        : S3 \in {addmod_checked(S2, "tm.one_plus_y", "tm.one", Y(self))}})
        : S2 \in {from_u32(S1, "tm.one", 1)}})
        : S1 \in {new(new(S0, "tm.one_plus_y"), "tm.one_minus_y")}})

\* JubjubPoint::to_montgomery; out names the returned point.
to_montgomery(S0, out, self) ==
    Only({Only({Only({Only({Only({Only({Only({Only({Only({
        drop(drop(drop(drop(S9, "tm.temp"), "tm.one"), "tm.one_minus_y"), "tm.one_plus_y")
        : S9 \in {divmod_checked(S8, Y(out), "tm.one_plus_y", "tm.temp")}})
        : S8 \in {mulmod_checked(S7, "tm.temp", "tm.one_minus_y", X(self))}})
        : S7 \in {new(S6, "tm.temp")}})
        : S6 \in {divmod_checked(S5, X(out), "tm.one_plus_y", "tm.one_minus_y")}})
        : S5 \in {new(new(S4, X(out)), Y(out))}})
        : S4 \in {submod_checked(S3, "tm.one_minus_y", "tm.one", Y(self))}})
        : S3 \in {addmod_checked(S2, "tm.one_plus_y", "tm.one", Y(self))}})
        : S2 \in {from_u32(S1, "tm.one", 1)}})
        : S1 \in {new(new(S0, "tm.one_plus_y"), "tm.one_minus_y")}})

\* A conversion from Montgomery form with x = v / u.
to_twisted_edward_swapped(S0, out, self) ==
    Only({Only({Only({Only({Only({Only({Only({
        drop(drop(S7, "tt.temp"), "tt.one")
        : S7 \in {binary_constrained(S6, "div", Y(out), "tt.temp")}})
        : S6 \in {addmod_checked(S5, "tt.temp", X(self), "tt.one")}})
        : S5 \in {submod_checked(S4, Y(out), X(self), "tt.one")}})
        : S4 \in {new(S3, "tt.temp")}})
        : S3 \in {divmod_checked(S2, X(out), Y(self), X(self))}})
        : S2 \in {new(new(S1, X(out)), Y(out))}})
        : S1 \in {from_u32(S0, "tt.one", 1)}})

\* JubjubPoint::to_twisted_edward; out names the returned point.
to_twisted_edward(S0, out, self) ==
    Only({Only({Only({Only({Only({Only({Only({
        drop(drop(S7, "tt.temp"), "tt.one")
        : S7 \in {binary_constrained(S6, "div", Y(out), "tt.temp")}})
        : S6 \in {addmod_checked(S5, "tt.temp", X(self), "tt.one")}})
        : S5 \in {submod_checked(S4, Y(out), X(self), "tt.one")}})
        : S4 \in {new(S3, "tt.temp")}})
        : S3 \in {divmod_checked(S2, X(out), X(self), Y(self))}})
        : S2 \in {new(new(S1, X(out)), Y(out))}})
        : S1 \in {from_u32(S0, "tt.one", 1)}})

\* JubjubPoint::twisted_edward_add; out names the returned point.
twisted_edward_add(S0, out, a, b) ==
    Only({Only({Only({Only({Only({Only({Only({Only({Only({Only({Only({Only({Only({Only({Only({Only({Only({Only({Only({Only({Only({Only({Only({Only({
        drop(drop(drop(drop(S24, "te.lambda"), "te.d"), "te.a"), "te.one")
        : S24 \in {drop(drop(drop(drop(S23, "te.t2_temp"), "te.t3"), "te.t2"), "te.t1")}})
        : S23 \in {divmod_checked(S22, Y(out), "te.t1", "te.t3")}})
        : S22 \in {new(S21, Y(out))}})
        : S21 \in {binary_constrained(S20, "sub", "te.t1", "te.t2")}})
        : S20 \in {submod_checked(S19, "te.t3", "te.one", "te.lambda")}})
        : S19 \in {mulmod_checked(S18, "te.t2", "te.a", "te.t2_temp")}})
        : S18 \in {clone(S17, "te.t2", "te.t2_temp")}})
        : S17 \in {mulmod_checked(S16, "te.t2", X(a), X(b))}})
        : S16 \in {mulmod_checked(S15, "te.t1", Y(a), Y(b))}})
        : S15 \in {divmod_checked(S14, X(out), "te.t1", "te.t3")}})
        : S14 \in {new(S13, X(out))}})
        : S13 \in {binary_constrained(S12, "add", "te.t1", "te.t2")}})
        : S12 \in {addmod_checked(S11, "te.t3", "te.one", "te.lambda")}})
        : S11 \in {mulmod_checked(S10, "te.t2", Y(a), X(b))}})
        : S10 \in {mulmod_checked(S9, "te.t1", X(a), Y(b))}})
        : S9 \in {new(new(new(S8, "te.t1"), "te.t2"), "te.t3")}})
        : S8 \in {binary_constrained(S7, "mul", "te.lambda", Y(b))}})
        : S7 \in {binary_constrained(S6, "mul", "te.lambda", X(b))}})
        : S6 \in {binary_constrained(S5, "mul", "te.lambda", Y(a))}})
        : S5 \in {mulmod_checked(S4, "te.lambda", "te.d", X(a))}})
        : S4 \in {new(S3, "te.lambda")}})
        : S3 \in {from_str(S2, "te.d", COEF_D)}})
        : S2 \in {from_str(S1, "te.a", COEF_A)}})
        : S1 \in {from_u32(S0, "te.one", 1)}})

\* The number of 2-bit windows of a scalar (127 in the source, for 254 bits).
NumWindows == 3

ScalarBits == 2 * NumWindows

\* acc = twisted_edward_add(&acc, &b): the old accumulator is dropped when
\* the new point is assigned.
acc_add(S0, acc, b) ==
    Only({
        move_point(drop_point(S1, acc), "sm.next", acc)
        : S1 \in {twisted_edward_add(S0, "sm.next", acc, b)}})

\* An iteration that leaves the addition out when the window is zero.
window_step_skipping(S0, acc, bits, i) ==
    Only({
        IF V(S2, ElemName(bits, i)) = 0 /\ V(S2, ElemName(bits, i + 1)) = 0
        THEN S2
        ELSE Only({
            drop_point(acc_add(S3, acc, "sm.temp"), "sm.temp")
            : S3 \in {point_mux2(S2, "sm.temp", ElemName(bits, i), ElemName(bits, i + 1),
                                 "sm.w0", "sm.w1", "sm.w2", "sm.w3")}})
        : S2 \in {acc_add(acc_add(S0, acc, acc), acc, acc)}})

\* An iteration with a single doubling of the accumulator.
window_step_one_doubling(S0, acc, bits, i) ==
    Only({Only({Only({
        drop_point(S4, "sm.temp")
        : S4 \in {acc_add(S3, acc, "sm.temp")}})
        : S3 \in {point_mux2(S2, "sm.temp", ElemName(bits, i), ElemName(bits, i + 1),
              "sm.w0", "sm.w1", "sm.w2", "sm.w3")}})
        : S2 \in {acc_add(S0, acc, acc)}})

\* One iteration of the loop of scalar_mul, for the window at bits i, i+1.
window_step(S0, acc, bits, i) ==
    Only({Only({Only({Only({
        drop_point(S4, "sm.temp")
        : S4 \in {acc_add(S3, acc, "sm.temp")}})
        : S3 \in {point_mux2(S2, "sm.temp", ElemName(bits, i), ElemName(bits, i + 1),
              "sm.w0", "sm.w1", "sm.w2", "sm.w3")}})
        : S2 \in {acc_add(S1, acc, acc)}})
        : S1 \in {acc_add(S0, acc, acc)}})

\* for i in (0..ScalarBits-3).step_by(2).rev(): i, i-2, ..., 0
RECURSIVE window_loop(_, _, _, _)
window_loop(S0, acc, bits, i) ==
    IF i < 0 THEN S0
    ELSE Only({
             window_loop(S, acc, bits, i - 2)
             : S \in {window_step(S0, acc, bits, i)}})

\* Drop of a Vec<Bn254Fr>: the elements in index order.
RECURSIVE drop_vec(_, _, _, _)
drop_vec(S0, pre, i, count) ==
    IF i >= count THEN S0
    ELSE Only({
             drop_vec(S, pre, i + 1, count)
             : S \in {drop(S0, ElemName(pre, i))}})

\* JubjubPoint::scalar_mul; out names the returned point.
scalar_mul(S0, out, self, x) ==
    Only({Only({Only({Only({Only({Only({Only({Only({
        drop_point(drop_point(drop_point(drop_point(S8, "sm.w3"), "sm.w2"),
          "sm.w1"), "sm.w0")
        : S8 \in {drop_vec(S7, "sm.bits", 0, ScalarBits)}})
        : S7 \in {window_loop(S6, out, "sm.bits", ScalarBits - 4)}})
        : S6 \in {point_mux2(S5, out, ElemName("sm.bits", ScalarBits - 2),
              ElemName("sm.bits", ScalarBits - 1),
              "sm.w0", "sm.w1", "sm.w2", "sm.w3")}})
        : S5 \in {to_bits(S4, x, ScalarBits, "sm.bits")}})
        : S4 \in {twisted_edward_add(S3, "sm.w3", "sm.w1", "sm.w2")}})
        : S3 \in {twisted_edward_add(S2, "sm.w2", self, self)}})
        : S2 \in {clone_point(S1, self, "sm.w1")}})
        : S1 \in {identity(S0, "sm.w0")}})

\* JubjubPoint::scalar_mul_extend up to the end of the loop over x2: the
\* window points, the bits of x2 and the accumulator out.
extend_first(S0, out, self, x2) ==
    Only({Only({Only({Only({Only({Only({
        window_loop(S6, out, "sm.bits", ScalarBits - 4)
        : S6 \in {point_mux2(S5, out, ElemName("sm.bits", ScalarBits - 2),
              ElemName("sm.bits", ScalarBits - 1),
              "sm.w0", "sm.w1", "sm.w2", "sm.w3")}})
        : S5 \in {to_bits(S4, x2, ScalarBits, "sm.bits")}})
        : S4 \in {twisted_edward_add(S3, "sm.w3", "sm.w1", "sm.w2")}})
        : S3 \in {twisted_edward_add(S2, "sm.w2", self, self)}})
        : S2 \in {clone_point(S1, self, "sm.w1")}})
        : S1 \in {identity(S0, "sm.w0")}})

\* The loop over x1 without its first iteration, the window of the two
\* highest bits.
extend_second_short(S0, out, x1) ==
    Only({Only({Only({Only({
        drop_point(drop_point(drop_point(drop_point(S4, "sm.w3"), "sm.w2"),
          "sm.w1"), "sm.w0")
        : S4 \in {drop_vec(S3, "sm.bits1", 0, ScalarBits)}})
        : S3 \in {window_loop(S2, out, "sm.bits1", ScalarBits - 4)}})
        : S2 \in {drop_vec(S1, "sm.bits", 0, ScalarBits)}})
        : S1 \in {to_bits(S0, x1, ScalarBits, "sm.bits1")}})

\* JubjubPoint::scalar_mul_extend from `bits = x1.to_bits(254)` on: the old
\* vector is dropped when the new one is assigned, the loop runs over every
\* window of x1, and the locals are dropped.
extend_second(S0, out, x1) ==
    Only({Only({Only({Only({
        drop_point(drop_point(drop_point(drop_point(S4, "sm.w3"), "sm.w2"),
          "sm.w1"), "sm.w0")
        : S4 \in {drop_vec(S3, "sm.bits1", 0, ScalarBits)}})
        : S3 \in {window_loop(S2, out, "sm.bits1", ScalarBits - 2)}})
        : S2 \in {drop_vec(S1, "sm.bits", 0, ScalarBits)}})
        : S1 \in {to_bits(S0, x1, ScalarBits, "sm.bits1")}})

\* JubjubPoint::scalar_mul_extend; out names the returned point.
scalar_mul_extend(S0, out, self, x1, x2) ==
    Only({ extend_second(S1, out, x1) : S1 \in {extend_first(S0, out, self, x2)} })

(***************************************************************************)
(* Batch field elements: a VBn254Fr holds one field value per lane and has *)
(* no constrained flag.                                                    *)
(***************************************************************************)
\* The batch width reported by _vbn254fr_get_size.
NumLanes == 2

Lanes == 1..NumLanes

\* One value in every lane.
Broadcast(v) == [l \in Lanes |-> v % FIELD_P]

\* VBn254Fr::new, with _vbn254fr_alloc
VBn254Fr_new(S0, n) ==
    Only({
        Bind([S EXCEPT !.val = Append(@, Broadcast(0)),
                    !.live = @ \cup {Len(S.val) + 1},
                    !.log = Append(@, <<"vbn254fr_alloc", Len(S.val) + 1>>)],
          n, Len(S.val) + 1, FALSE)
        : S \in {S0}})

\* impl Drop for VBn254Fr, with _vbn254fr_free
VBn254Fr_drop(S0, n) ==
    Only({
        Unbind([S EXCEPT !.live = @ \ {H(S, n)},
          !.val[H(S, n)] = Broadcast(0),
          !.dfree = @ \/ (H(S, n) \notin S.live),
          !.log = Append(@, <<"vbn254fr_free", H(S, n)>>)], n)
        : S \in {S0}})

\* _vbn254fr_set_ui, _vbn254fr_set_ui_scalar: the lanes receive vs.
VBackendSet(S0, n, vs) ==
    Only({
        Write(Log(S, <<"vbn254fr_set", H(S, n)>>), H(S, n),
          [l \in Lanes |-> vs[l] % FIELD_P])
        : S \in {S0}})

\* VBn254Fr::from_ui
from_ui(S0, n, vs) == VBackendSet(VBn254Fr_new(S0, n), n, vs)

\* impl Clone for VBn254Fr, with _vbn254fr_copy
VBn254Fr_clone(S0, src, dst) ==
    Only({
        Write(Log(S, <<"vbn254fr_copy", H(S, dst), H(S, src)>>), H(S, dst), V(S, src))
        : S \in {VBn254Fr_new(S0, dst)}})

\* _vbn254fr_addmod, _submod, _mulmod, _divmod: out = x op y in every lane
VBackendBinary(S0, op, out, x, y) ==
    Only({
        Write(Log(S, <<"vbn254fr_" \o op, H(S, out), H(S, x), H(S, y)>>), H(S, out),
          [l \in Lanes |-> ApplyOp(op, V(S, x)[l], V(S, y)[l])])
        : S \in {S0}})

\* _vbn254fr_addmod_constant, _submod_constant, _mulmod_constant: out = x op k;
\* _vbn254fr_constant_submod: out = k - x
VBackendConstant(S0, op, out, x, k) ==
    Only({
        Write(Log(S, <<"vbn254fr_" \o op, H(S, out), H(S, x)>>), H(S, out),
          [l \in Lanes |->
              CASE op = "addmod_constant" -> ApplyOp("addmod", V(S, x)[l], k % FIELD_P)
                [] op = "mulmod_constant" -> ApplyOp("mulmod", V(S, x)[l], k % FIELD_P)
                [] op = "submod_constant" -> ApplyOp("submod", V(S, x)[l], k % FIELD_P)
                [] op = "constant_submod" -> ApplyOp("submod", k % FIELD_P, V(S, x)[l])])
        : S \in {S0}})

\* _vbn254fr_assert_equal
VBn254Fr_assert_equal(S0, a, b) ==
    Only({
        [Log(S, <<"vbn254fr_assert_equal", H(S, a), H(S, b)>>)
          EXCEPT !.failed = @ \/ (V(S, a) # V(S, b))]
        : S \in {S0}})

\* Clones of elem become the elements lo .. hi-1 of a Vec<VBn254Fr>.
RECURSIVE VVecFill(_, _, _, _, _)
VVecFill(S0, elem, pre, lo, hi) ==
    IF lo >= hi THEN S0
    ELSE IF hi = lo + 1 THEN VBn254Fr_clone(S0, elem, ElemName(pre, lo))
    ELSE Only({
             VVecFill(S, elem, pre, (lo + hi) \div 2, hi)
             : S \in {VVecFill(S0, elem, pre, lo, (lo + hi) \div 2)}})

\* VBn254Fr::bit_decompose over count bits (254 in the source): the Vec pre
\* is built by vec![VBn254Fr::new(); count], and _vbn254fr_bit_decompose
\* stores bit i of every lane in pre[i].
bit_decompose(S0, self, pre, count) ==
    Only({Only({
        LET hs == [i \in 0..(count - 1) |-> H(S, ElemName(pre, i))]
              at == [h \in {hs[i] : i \in DOMAIN hs} |-> CHOOSE i \in DOMAIN hs : hs[i] = h]
          IN  [Log(S, <<"vbn254fr_bit_decompose", hs[0], H(S, self)>>) EXCEPT
                  !.val = [h \in DOMAIN @ |->
                              IF h \in DOMAIN at
                              THEN [l \in Lanes |-> BitOf(V(S, self)[l], at[h])]
                              ELSE @[h]]]
        : S \in {Move(S1, "vvec.elem", ElemName(pre, count - 1))}})
        : S1 \in {VVecFill(VBn254Fr_new(S0, "vvec.elem"), "vvec.elem", pre, 0, count - 1)}})

\* vbn254fr::mux_vec
mux_vec(S0, out, cond, a0, a1) ==
    Only({Only({Only({Only({
        VBn254Fr_drop(VBn254Fr_drop(S4, "vmux.temp2"), "vmux.temp1")
        : S4 \in {VBackendBinary(S3, "addmod", out, a0, "vmux.temp2")}})
        : S3 \in {VBackendBinary(S2, "mulmod", "vmux.temp2", cond, "vmux.temp1")}})
        : S2 \in {VBackendBinary(S1, "submod", "vmux.temp1", a1, a0)}})
        : S1 \in {VBn254Fr_new(VBn254Fr_new(S0, "vmux.temp1"), "vmux.temp2")}})

\* vbn254fr::mux2_vec
mux2_vec(S0, out, s0, s1, a0, a1, a2, a3) ==
    Only({Only({Only({Only({
        VBn254Fr_drop(VBn254Fr_drop(S4, "vmux2.temp2"), "vmux2.temp1")
        : S4 \in {mux_vec(S3, out, s1, "vmux2.temp1", "vmux2.temp2")}})
        : S3 \in {mux_vec(S2, "vmux2.temp2", s0, a2, a3)}})
        : S2 \in {mux_vec(S1, "vmux2.temp1", s0, a0, a1)}})
        : S1 \in {VBn254Fr_new(VBn254Fr_new(S0, "vmux2.temp1"), "vmux2.temp2")}})

\* vbn254fr::bxor_vec: out = x + (y - 2 * x * y)
bxor_vec(S0, out, x, y) ==
    Only({Only({Only({
        VBackendBinary(S3, "addmod", out, x, out)
        : S3 \in {VBackendBinary(S2, "submod", out, y, out)}})
        : S2 \in {VBackendConstant(S1, "mulmod_constant", out, out, 2)}})
        : S1 \in {VBackendBinary(S0, "mulmod", out, x, y)}})

\* vbn254fr::neq_vec: out = 1 - bxor_vec(x, y)
neq_vec(S0, out, x, y) ==
    Only({
        VBackendConstant(S1, "constant_submod", out, out, 1)
        : S1 \in {bxor_vec(S0, out, x, y)}})

(***************************************************************************)
(* JubjubPointVec                                                          *)
(***************************************************************************)
vec_drop_point(S0, p) == VBn254Fr_drop(VBn254Fr_drop(S0, X(p)), Y(p))

\* #[derive(Clone)] for JubjubPointVec
vec_clone_point(S0, src, dst) ==
    VBn254Fr_clone(VBn254Fr_clone(S0, X(src), X(dst)), Y(src), Y(dst))

\* JubjubPointVec::identity
vec_identity(S0, out) ==
    Only({
        VBackendSet(VBackendSet(S1, X(out), Broadcast(0)), Y(out), Broadcast(1))
        : S1 \in {VBn254Fr_new(VBn254Fr_new(S0, X(out)), Y(out))}})

\* JubjubPointVec::mux2
vec_point_mux2(S0, out, s0, s1, b0, b1, b2, b3) ==
    Only({Only({
        mux2_vec(S2, Y(out), s0, s1, Y(b0), Y(b1), Y(b2), Y(b3))
        : S2 \in {mux2_vec(S1, X(out), s0, s1, X(b0), X(b1), X(b2), X(b3))}})
        : S1 \in {VBn254Fr_new(VBn254Fr_new(S0, X(out)), Y(out))}})

\* JubjubPointVec::to_montgomery; VEC_ONE is the constant 1.
vec_to_montgomery(S0, out, self) ==
    Only({Only({Only({Only({Only({Only({Only({Only({
        VBn254Fr_drop(VBn254Fr_drop(VBn254Fr_drop(S8,
          "vtm.temp"), "vtm.one_minus_y"), "vtm.one_plus_y")
        : S8 \in {VBackendBinary(S7, "divmod", Y(out), "vtm.one_plus_y", "vtm.temp")}})
        : S7 \in {VBackendBinary(S6, "mulmod", "vtm.temp", "vtm.one_minus_y", X(self))}})
        : S6 \in {VBn254Fr_new(S5, "vtm.temp")}})
        : S5 \in {VBackendBinary(S4, "divmod", X(out), "vtm.one_plus_y", "vtm.one_minus_y")}})
        : S4 \in {VBn254Fr_new(VBn254Fr_new(S3, X(out)), Y(out))}})
        : S3 \in {VBackendConstant(S2, "constant_submod", "vtm.one_minus_y", Y(self), 1)}})
        : S2 \in {VBackendConstant(S1, "addmod_constant", "vtm.one_plus_y", Y(self), 1)}})
        : S1 \in {VBn254Fr_new(VBn254Fr_new(S0, "vtm.one_plus_y"), "vtm.one_minus_y")}})

\* JubjubPointVec::to_twisted_edward
vec_to_twisted_edward(S0, out, self) ==
    Only({Only({Only({Only({Only({Only({
        VBn254Fr_drop(S6, "vtt.temp")
        : S6 \in {VBackendBinary(S5, "divmod", Y(out), Y(out), "vtt.temp")}})
        : S5 \in {VBackendConstant(S4, "addmod_constant", "vtt.temp", X(self), 1)}})
        : S4 \in {VBackendConstant(S3, "submod_constant", Y(out), X(self), 1)}})
        : S3 \in {VBn254Fr_new(S2, "vtt.temp")}})
        : S2 \in {VBackendBinary(S1, "divmod", X(out), X(self), Y(self))}})
        : S1 \in {VBn254Fr_new(VBn254Fr_new(S0, X(out)), Y(out))}})

\* JubjubPointVec::twisted_edward_add; out names the returned point.
vec_twisted_edward_add(S0, out, a, b) ==
    Only({Only({Only({Only({Only({Only({Only({Only({Only({Only({Only({Only({Only({Only({Only({Only({Only({Only({Only({
        VBn254Fr_drop(VBn254Fr_drop(VBn254Fr_drop(VBn254Fr_drop(S19,
          "vte.t3"), "vte.t2"), "vte.t1"), "vte.lambda")
        : S19 \in {VBackendBinary(S18, "divmod", Y(out), "vte.t1", "vte.t3")}})
        : S18 \in {VBn254Fr_new(S17, Y(out))}})
        : S17 \in {VBackendBinary(S16, "submod", "vte.t1", "vte.t1", "vte.t2")}})
        : S16 \in {VBackendConstant(S15, "constant_submod", "vte.t3", "vte.lambda", 1)}})
        : S15 \in {VBackendConstant(S14, "mulmod_constant", "vte.t2", "vte.t2", COEF_A)}})
        : S14 \in {VBackendBinary(S13, "mulmod", "vte.t2", X(a), X(b))}})
        : S13 \in {VBackendBinary(S12, "mulmod", "vte.t1", Y(a), Y(b))}})
        : S12 \in {VBackendBinary(S11, "divmod", X(out), "vte.t1", "vte.t3")}})
        : S11 \in {VBn254Fr_new(S10, X(out))}})
        : S10 \in {VBackendBinary(S9, "addmod", "vte.t1", "vte.t1", "vte.t2")}})
        : S9 \in {VBackendConstant(S8, "addmod_constant", "vte.t3", "vte.lambda", 1)}})
        : S8 \in {VBackendBinary(S7, "mulmod", "vte.t2", Y(a), X(b))}})
        : S7 \in {VBackendBinary(S6, "mulmod", "vte.t1", X(a), Y(b))}})
        : S6 \in {VBn254Fr_new(VBn254Fr_new(VBn254Fr_new(S5, "vte.t1"), "vte.t2"), "vte.t3")}})
        : S5 \in {VBackendBinary(S4, "mulmod", "vte.lambda", "vte.lambda", Y(b))}})
        : S4 \in {VBackendBinary(S3, "mulmod", "vte.lambda", "vte.lambda", X(b))}})
        : S3 \in {VBackendBinary(S2, "mulmod", "vte.lambda", "vte.lambda", Y(a))}})
        : S2 \in {VBackendConstant(S1, "mulmod_constant", "vte.lambda", X(a), COEF_D)}})
        : S1 \in {VBn254Fr_new(S0, "vte.lambda")}})

\* acc = JubjubPointVec::twisted_edward_add(&acc, &b)
vec_acc_add(S0, acc, b) ==
    Only({
        move_point(vec_drop_point(S1, acc), "vsm.next", acc)
        : S1 \in {vec_twisted_edward_add(S0, "vsm.next", acc, b)}})

\* One iteration of the loop of JubjubPointVec::scalar_mul; the selected
\* point is a temporary of the last statement.
vec_window_step(S0, acc, bits, i) ==
    Only({Only({Only({Only({
        vec_drop_point(S4, "vsm.temp")
        : S4 \in {vec_acc_add(S3, acc, "vsm.temp")}})
        : S3 \in {vec_point_mux2(S2, "vsm.temp", ElemName(bits, i), ElemName(bits, i + 1),
              "vsm.w0", "vsm.w1", "vsm.w2", "vsm.w3")}})
        : S2 \in {vec_acc_add(S1, acc, acc)}})
        : S1 \in {vec_acc_add(S0, acc, acc)}})

RECURSIVE vec_window_loop(_, _, _, _)
vec_window_loop(S0, acc, bits, i) ==
    IF i < 0 THEN S0
    ELSE Only({
             vec_window_loop(S, acc, bits, i - 2)
             : S \in {vec_window_step(S0, acc, bits, i)}})

\* Drop of a Vec<VBn254Fr>
RECURSIVE vec_drop_vec(_, _, _, _)
vec_drop_vec(S0, pre, i, count) ==
    IF i >= count THEN S0
    ELSE Only({
             vec_drop_vec(S, pre, i + 1, count)
             : S \in {VBn254Fr_drop(S0, ElemName(pre, i))}})

\* JubjubPointVec::scalar_mul; out names the returned point.
vec_scalar_mul(S0, out, self, x) ==
    Only({Only({Only({Only({Only({Only({Only({Only({
        vec_drop_vec(S8, "vsm.bits", 0, ScalarBits)
        : S8 \in {vec_drop_point(vec_drop_point(vec_drop_point(vec_drop_point(S7,
              "vsm.w3"), "vsm.w2"), "vsm.w1"), "vsm.w0")}})
        : S7 \in {vec_window_loop(S6, out, "vsm.bits", ScalarBits - 4)}})
        : S6 \in {vec_point_mux2(S5, out, ElemName("vsm.bits", ScalarBits - 2),
              ElemName("vsm.bits", ScalarBits - 1),
              "vsm.w0", "vsm.w1", "vsm.w2", "vsm.w3")}})
        : S5 \in {vec_twisted_edward_add(S4, "vsm.w3", "vsm.w1", "vsm.w2")}})
        : S4 \in {vec_twisted_edward_add(S3, "vsm.w2", self, self)}})
        : S3 \in {vec_clone_point(S2, self, "vsm.w1")}})
        : S2 \in {vec_identity(S1, "vsm.w0")}})
        : S1 \in {bit_decompose(S0, x, "vsm.bits", ScalarBits)}})

\* JubjubPointVec::scalar_mul_extend up to the end of the loop over x2
vec_extend_first(S0, out, self, x2) ==
    Only({Only({Only({Only({Only({Only({
        vec_window_loop(S6, out, "vsm.bits", ScalarBits - 4)
        : S6 \in {vec_point_mux2(S5, out, ElemName("vsm.bits", ScalarBits - 2),
              ElemName("vsm.bits", ScalarBits - 1),
              "vsm.w0", "vsm.w1", "vsm.w2", "vsm.w3")}})
        : S5 \in {bit_decompose(S4, x2, "vsm.bits", ScalarBits)}})
        : S4 \in {vec_twisted_edward_add(S3, "vsm.w3", "vsm.w1", "vsm.w2")}})
        : S3 \in {vec_twisted_edward_add(S2, "vsm.w2", self, self)}})
        : S2 \in {vec_clone_point(S1, self, "vsm.w1")}})
        : S1 \in {vec_identity(S0, "vsm.w0")}})

\* JubjubPointVec::scalar_mul_extend from `bits = x1.bit_decompose()` on
vec_extend_second(S0, out, x1) ==
    Only({Only({Only({Only({
        vec_drop_point(vec_drop_point(vec_drop_point(vec_drop_point(S4,
          "vsm.w3"), "vsm.w2"), "vsm.w1"), "vsm.w0")
        : S4 \in {vec_drop_vec(S3, "vsm.bits1", 0, ScalarBits)}})
        : S3 \in {vec_window_loop(S2, out, "vsm.bits1", ScalarBits - 2)}})
        : S2 \in {vec_drop_vec(S1, "vsm.bits", 0, ScalarBits)}})
        : S1 \in {bit_decompose(S0, x1, "vsm.bits1", ScalarBits)}})

\* JubjubPointVec::scalar_mul_extend; out names the returned point.
vec_scalar_mul_extend(S0, out, self, x1, x2) ==
    Only({ vec_extend_second(S1, out, x1) : S1 \in {vec_extend_first(S0, out, self, x2)} })

(***************************************************************************)
(* EdDSA.  An EddsaSignature named sig owns the point sig.r and the        *)
(* element sig.s.                                                          *)
(***************************************************************************)
\* The generator, scaled to the curve over FIELD_P: a point that generates
\* the whole group.
GENERATOR_X == 1

GENERATOR_Y == 3

SigR(sig) == sig \o ".r"

SigS(sig) == sig \o ".s"

\* EddsaSignature::generator
generator(S0, out) == from_str(from_str(S0, X(out), GENERATOR_X), Y(out), GENERATOR_Y)

\* EddsaSignature::verify
verify(S0, sig, public_key, message) ==
    Only({Only({Only({Only({Only({Only({
        drop_point(drop_point(drop_point(S6, "vf.p"), "vf.sg"), "vf.g")
        : S6 \in {point_assert_equal(S5, "vf.sg", "vf.p")}})
        : S5 \in {move_point(drop_point(S4, "vf.p"), "vf.next", "vf.p")}})
        : S4 \in {twisted_edward_add(S3, "vf.next", SigR(sig), "vf.p")}})
        : S3 \in {scalar_mul(S2, "vf.p", public_key, message)}})
        : S2 \in {scalar_mul(S1, "vf.sg", "vf.g", SigS(sig))}})
        : S1 \in {generator(S0, "vf.g")}})

(***************************************************************************)
(* SpecMux: one call of mux or of mux2 on arbitrary field values.          *)
(***************************************************************************)
\* Four values chosen so that any two of them differ.
MuxData == {[a0 |-> v, a1 |-> (v + 1) % FIELD_P,
             a2 |-> (v + 2) % FIELD_P, a3 |-> (v + 3) % FIELD_P] : v \in Fp}

MuxInputs ==
    {[kind |-> "mux", s0 |-> c, s1 |-> 0, a0 |-> a, a1 |-> b, a2 |-> 0, a3 |-> 0]
        : c \in Fp, a \in Fp, b \in Fp}
    \cup
    {[kind |-> "mux2", s0 |-> s0, s1 |-> s1,
      a0 |-> d.a0, a1 |-> d.a1, a2 |-> d.a2, a3 |-> d.a3]
        : s0 \in Fp, s1 \in Fp, d \in MuxData}

\* The caller's objects: selectors, data and the output.
MuxSetup(i) ==
    Only({Only({Only({Only({Only({Only({Only({
        S7
        : S7 \in {new(S6, "out")}})
        : S6 \in {from_u32(S5, "a3", i.a3)}})
        : S5 \in {from_u32(S4, "a2", i.a2)}})
        : S4 \in {from_u32(S3, "a1", i.a1)}})
        : S3 \in {from_u32(S2, "a0", i.a0)}})
        : S2 \in {from_u32(S1, "s1", i.s1)}})
        : S1 \in {from_u32(EmptyStore, "s0", i.s0)}})

MuxInit ==
    /\ inp \in MuxInputs
    /\ store = EmptyStore
    /\ pc = "init"

\* The caller constructs the arguments.
MuxArgs ==
    /\ pc = "init"
    /\ store' = MuxSetup(inp)
    /\ pc' = "start"
    /\ UNCHANGED inp

MuxCall ==
    /\ pc = "start"
    /\ inp.kind = "mux"
    /\ store' = mux(store, "out", "s0", "a0", "a1")
    /\ pc' = "done"
    /\ UNCHANGED inp

Mux2Call ==
    /\ pc = "start"
    /\ inp.kind = "mux2"
    /\ store' = mux2(store, "out", "s0", "s1", "a0", "a1", "a2", "a3")
    /\ pc' = "done"
    /\ UNCHANGED inp

MuxNext == MuxArgs \/ MuxCall \/ Mux2Call

SpecMux == MuxInit /\ [][MuxNext]_vars

MuxDone == pc = "done" /\ inp.kind = "mux"

Mux2Done == pc = "done" /\ inp.kind = "mux2"

IsBit(v) == v \in {0, 1}

\* C2 (as amended): mux called with the arguments in the order (cond, a, b)
\* returns b when cond = 1 and a when cond = 0, for all field elements a, b.
C2_MuxReturnsSecondWhenOne ==
    MuxDone =>
        /\ inp.s0 = 1 => V(store, "out") = inp.a1
        /\ inp.s0 = 0 => V(store, "out") = inp.a0

\* C2, the case: a call with cond = 1 and a # b has returned b.
C2_Witness ==
    /\ MuxDone
    /\ inp.s0 = 1
    /\ inp.a0 # inp.a1
    /\ ~store.failed
    /\ V(store, "out") = inp.a1

\* C2 as stated: mux(cond, a, b) returns a when cond = 1 and b when cond = 0.
C2_AsStated ==
    MuxDone =>
        /\ inp.s0 = 1 => V(store, "out") = inp.a0
        /\ inp.s0 = 0 => V(store, "out") = inp.a1

\* C3: mux raises a failing assertion exactly when cond is neither 0 nor 1;
\* mux2 raises one exactly when s0 or s1 is neither 0 nor 1.
C3_FailsExactlyOnNonBit ==
    /\ MuxDone => (store.failed <=> ~IsBit(inp.s0))
    /\ Mux2Done => (store.failed <=> (~IsBit(inp.s0) \/ ~IsBit(inp.s1)))

\* C3, the cases: a mux call with a selector of 2 has failed, a mux2 call
\* whose only bad selector is s1 has failed, and calls with bit selectors
\* have completed without a failing assertion.
C3_Witness ==
    \/ MuxDone /\ inp.s0 = 2 /\ store.failed
    \/ Mux2Done /\ inp.s0 = 1 /\ inp.s1 = 2 /\ store.failed

(***************************************************************************)
(* SpecFr: sequences of public Bn254Fr operations on three elements.       *)
(* inp is the operation performed last; store.log holds its FFI calls.     *)
(* References of one call obey the borrow rules: an element passed as      *)
(* &mut is not passed again in the same call.                              *)
(***************************************************************************)
MaxOps == 2

Elems == {"x", "y", "z"}

RawBinOps == {"addmod", "submod", "mulmod", "divmod", "band"}

RawUnOps == {"negmod", "invmod"}

CheckedBinKinds == {"add", "sub", "mul", "mulc", "div", "divc"}

CheckedUnKinds == {"neg", "inv"}

AssertKinds == {"equal", "add", "mul", "mulc"}

\* Initial values of x, y, z.
FrValues == {<<2, 3, 5>>, <<2, 3, 6>>, <<4, 4, 4>>, <<0, 1, 0>>}

SetValues == {0, 7}

NoOp == [op |-> "none", kind |-> "none", out |-> "x", a |-> "x", b |-> "x", n |-> 0]

Begin(S) == [S EXCEPT !.log = <<>>]

FrInit ==
    /\ store = EmptyStore
    /\ pc = "init"
    /\ inp \in {[NoOp EXCEPT !.kind = v] : v \in FrValues}

\* The caller constructs x, y and z.
FrCreate ==
    /\ pc = "init"
    /\ store' = Begin(from_u32(from_u32(from_u32(store, "x", inp.kind[1]),
                                        "y", inp.kind[2]), "z", inp.kind[3]))
    /\ pc' = "run"
    /\ inp' = NoOp

CanStep == pc = "run" /\ inp.n < MaxOps /\ ~store.failed

Did(op, kind, out, a, b) ==
    /\ inp' = [op |-> op, kind |-> kind, out |-> out, a |-> a, b |-> b, n |-> inp.n + 1]
    /\ pc' = pc

Divides(kind, b) == kind \in {"divmod", "invmod", "div", "divc", "inv"} => V(store, b) # 0

\* addmod(out, a, b), submod, mulmod, divmod, band: free functions
FrRawBinary ==
    \E op \in RawBinOps, out \in Elems : \E a, b \in Elems \ {out} :
        /\ CanStep /\ Divides(op, b)
        /\ store' = bn254fr_binary(Begin(store), op, out, a, b)
        /\ Did("raw", op, out, a, b)

\* self.addmod(a), ...
FrRawBinaryInPlace ==
    \E op \in RawBinOps, self \in Elems : \E a \in Elems \ {self} :
        /\ CanStep /\ Divides(op, a)
        /\ store' = bn254fr_binary(Begin(store), op, self, self, a)
        /\ Did("raw", op, self, self, a)

\* negmod(out, a), invmod(out, a)
FrRawUnary ==
    \E op \in RawUnOps, out \in Elems : \E a \in Elems \ {out} :
        /\ CanStep /\ Divides(op, a)
        /\ store' = bn254fr_unary(Begin(store), op, out, a)
        /\ Did("raw", op, out, a, a)

\* self.negmod(), self.invmod()
FrRawUnaryInPlace ==
    \E op \in RawUnOps, self \in Elems :
        /\ CanStep /\ Divides(op, self)
        /\ store' = bn254fr_unary(Begin(store), op, self, self)
        /\ Did("raw", op, self, self, self)

\* self.set_u32(v)
FrSet ==
    \E self \in Elems, v \in SetValues :
        /\ CanStep
        /\ store' = set_u32(Begin(store), self, v)
        /\ Did("set", v, self, self, self)

\* self.copy(src)
FrCopy ==
    \E self \in Elems : \E src \in Elems \ {self} :
        /\ CanStep
        /\ store' = copy(Begin(store), self, src)
        /\ Did("copy", "copy", self, src, src)

\* Bn254Fr::assert_equal(a, b), assert_add(out, a, b), assert_mul, assert_mulc
FrAssert ==
    \E kind \in AssertKinds, out \in Elems, a \in Elems, b \in Elems :
        /\ CanStep
        /\ kind = "equal" => out = a
        /\ store' = CASE kind = "equal" -> assert_equal(Begin(store), a, b)
                      [] kind = "add"   -> assert_add(Begin(store), out, a, b)
                      [] kind = "mul"   -> assert_mul(Begin(store), out, a, b)
                      [] kind = "mulc"  -> assert_mulc(Begin(store), out, a, b)
        /\ Did("assert", kind, out, a, b)

\* addmod_checked(out, a, b), ..., divmod_constant_checked(out, a, k)
FrChecked ==
    \E kind \in CheckedBinKinds, out \in Elems : \E a, b \in Elems \ {out} :
        /\ CanStep /\ Divides(kind, b)
        /\ store' = CheckedFn(Begin(store), kind, out, a, b)
        /\ Did("checked", kind, out, a, b)

\* negmod_checked(out, a), invmod_checked(out, a)
FrCheckedUnary ==
    \E kind \in CheckedUnKinds, out \in Elems : \E a \in Elems \ {out} :
        /\ CanStep /\ Divides(kind, a)
        /\ store' = IF kind = "neg" THEN negmod_checked(Begin(store), out, a)
                                    ELSE invmod_checked(Begin(store), out, a)
        /\ Did("checked", kind, out, a, a)

\* self.addmod_checked(a), ..., self.divmod_constant_checked(k)
FrCheckedInPlace ==
    \E kind \in CheckedBinKinds, self \in Elems : \E a \in Elems \ {self} :
        /\ CanStep /\ Divides(kind, a)
        /\ store' = binary_constrained(Begin(store), kind, self, a)
        /\ Did("checked", kind, self, self, a)

\* self.negmod_checked(a), self.invmod_checked(a)
FrCheckedUnaryInPlace ==
    \E kind \in CheckedUnKinds, self \in Elems : \E a \in Elems \ {self} :
        /\ CanStep /\ Divides(kind, a)
        /\ store' = unary_constrained(Begin(store), kind, self, a)
        /\ Did("checked", kind, self, a, a)

\* let c = src.clone()
FrClone ==
    \E src \in Elems :
        /\ CanStep
        /\ "c" \notin DOMAIN store.el
        /\ store' = clone(Begin(store), src, "c")
        /\ Did("clone", "clone", "c", src, src)

\* c goes out of scope
FrDropClone ==
    /\ CanStep
    /\ "c" \in DOMAIN store.el
    /\ store' = drop(Begin(store), "c")
    /\ Did("drop", "drop", "c", "c", "c")

FrNext ==
    \/ FrCreate
    \/ FrRawBinary
    \/ FrRawBinaryInPlace
    \/ FrRawUnary
    \/ FrRawUnaryInPlace
    \/ FrSet
    \/ FrCopy
    \/ FrAssert
    \/ FrChecked
    \/ FrCheckedUnary
    \/ FrCheckedInPlace
    \/ FrCheckedUnaryInPlace
    \/ FrClone
    \/ FrDropClone

SpecFr == FrInit /\ [][FrNext]_vars

\* The slots written by the backend calls of a log.
WritesOf(log) ==
    {log[i][2] : i \in {j \in DOMAIN log : log[j][1] \in {"set", "copy"} \cup RawBinOps \cup RawUnOps}}

CallsOf(log, call) == {i \in DOMAIN log : log[i][1] = call}

\* The step performs a new operation of one of the given classes.
Performs(ops) == inp'.n = inp.n + 1 /\ inp'.op \in ops

\* C6 as stated: no backend write ever targets the slot of a bound element.
C6_BoundSlotNeverOverwritten == ~store.ovw

\* The value a raw operation or a setter is to produce.
RawResult(S, i) ==
    IF i.op = "set" THEN i.kind % FIELD_P
    ELSE ApplyOp(i.kind, V(S, i.a), V(S, i.b))

\* C7: a raw operation or a setter whose destination is bound writes the
\* new value into a newly allocated slot, releases the slot that was bound
\* without writing it, and leaves the destination fresh; when the
\* destination is fresh it writes into the existing slot and the destination
\* stays fresh.
C7_RawAndSettersDetach ==
    [][Performs({"raw", "set"}) =>
        LET d  == inp'.out
            h  == store.el[d].h
            h2 == store'.el[d].h
        IN  /\ ~store'.el[d].c
            /\ store'.val[h2] = RawResult(store, inp')
            /\ WritesOf(store'.log) = {h2}
            /\ IF store.el[d].c
               THEN /\ h2 > Len(store.val)
                    /\ h2 \in store'.live
                    /\ h \notin store'.live
                    /\ CallsOf(store'.log, "free") # {}
               ELSE /\ h2 = h
                    /\ store'.live = store.live
                    /\ Len(store'.val) = Len(store.val)]_vars

\* C7, the case: a raw operation has run on a destination that was bound
\* (its old slot was freed), after an earlier operation bound it.
C7_Witness ==
    /\ inp.op = "raw"
    /\ inp.n = 2
    /\ CallsOf(store.log, "free") # {}
    /\ ~store.el[inp.out].c

\* The operands an assertion or a checked operation marks: all of them but
\* the constant k of the by-constant forms.
MarkedOperands(i) ==
    IF i.kind \in {"mulc", "divc"} THEN {i.out, i.a} ELSE {i.out, i.a, i.b}

\* C8 (as amended): after assert_equal, assert_add, assert_mul, assert_mulc
\* and after any checked operation, the result and every operand other than
\* the constant operand k of the by-constant forms are bound; k keeps the
\* flag it had.
C8_OperandsBoundExceptConstant ==
    [][(Performs({"assert", "checked"}) /\ ~store'.failed) =>
        /\ \A n \in MarkedOperands(inp') : store'.el[n].c
        /\ (inp'.kind \in {"mulc", "divc"} /\ inp'.b \notin {inp'.out, inp'.a})
              => store'.el[inp'.b].c = store.el[inp'.b].c]_vars

\* C8, the case: a by-constant operation has completed with a fresh k.
C8_Witness ==
    /\ inp.op \in {"assert", "checked"}
    /\ inp.kind \in {"mulc", "divc"}
    /\ ~store.failed
    /\ ~store.el[inp.b].c
    /\ store.el[inp.out].c /\ store.el[inp.a].c

\* C8 as stated: after any assertion or checked operation every operand,
\* the constant operand k included, and the result are bound.
C8_AsStated ==
    (inp.op \in {"assert", "checked"} /\ ~store.failed) =>
        \A n \in {inp.out, inp.a, inp.b} : store.el[n].c

\* C9: cloning a bound element emits exactly one equality constraint between
\* the copy and the original and yields a bound copy; cloning a fresh element
\* emits none and yields a fresh copy; the copy owns a newly allocated slot
\* and the original's slot, value and flag are unchanged.
C9_CloneSemantics ==
    [][Performs({"clone"}) =>
        LET src == inp'.a
            hs  == store.el[src].h
            hc  == store'.el["c"].h
        IN  /\ hc > Len(store.val) /\ hc \in store'.live /\ hc # hs
            /\ store'.val[hc] = store.val[hs]
            /\ store'.el[src] = store.el[src]
            /\ store'.val[hs] = store.val[hs]
            /\ store'.el["c"].c = store.el[src].c
            /\ store'.log = IF store.el[src].c
                            THEN <<(<<"alloc", hc>>), <<"copy", hc, hs>>,
                                   <<"assert_equal", hc, hs>>>>
                            ELSE <<(<<"alloc", hc>>), <<"copy", hc, hs>>>>]_vars

\* C9, the case: a bound element has been cloned.
C9_Witness ==
    /\ inp.op = "clone"
    /\ store.el["c"].c
    /\ store.el[inp.a].c
    /\ CallsOf(store.log, "assert_equal") # {}

(***************************************************************************)
(* SpecBits: one call of to_bits or of from_bits_checked with any count    *)
(* from 0 to two more than the largest count allowed.                      *)
(***************************************************************************)
BitsInputs ==
    {[kind |-> "to_bits", count |-> n, v |-> v, c |-> c]
        : n \in 0..(MAX_BITS + 2), v \in {0, 1}, c \in BOOLEAN}
    \cup
    {[kind |-> "from_bits", count |-> n, v |-> v, c |-> FALSE]
        : n \in 0..(MAX_BITS + 2), v \in {0, 1}}

BitsInit ==
    /\ store = EmptyStore
    /\ pc = "init"
    /\ inp \in BitsInputs

\* The caller constructs the receiver (bound or fresh) of to_bits, or the
\* slice passed to from_bits_checked.
BitsArgs ==
    /\ pc = "init"
    /\ store' = Begin(
         IF inp.kind = "to_bits"
         THEN Only({
                  IF inp.c THEN assert_equal(S, "self", "self") ELSE S
                  : S \in {from_u32(store, "self", inp.v)}})
         ELSE vec_from_elem(from_u32(store, "vec.elem", inp.v),
                            "vec.elem", "bits", inp.count))
    /\ pc' = "call"
    /\ UNCHANGED inp

ToBitsCall ==
    /\ pc = "call"
    /\ inp.kind = "to_bits"
    /\ store' = to_bits(store, "self", inp.count, "bits")
    /\ pc' = "done"
    /\ UNCHANGED inp

FromBitsCall ==
    /\ pc = "call"
    /\ inp.kind = "from_bits"
    /\ store' = from_bits_checked(store, "bits", inp.count, "out")
    /\ pc' = "done"
    /\ UNCHANGED inp

BitsNext == BitsArgs \/ ToBitsCall \/ FromBitsCall

SpecBits == BitsInit /\ [][BitsNext]_vars

\* The wrapper raised a failing assertion: assert_one was called on 0.
RaisedByWrapper(log) == \E i \in DOMAIN log : log[i] = <<"assert_one", FALSE>>

BitRoutineCalls(log) ==
    CallsOf(log, "to_bits_checked") \cup CallsOf(log, "from_bits_checked")

\* C10: to_bits(count) and from_bits_checked on a slice of length count
\* raise a failing assertion exactly when count < 1 or count > 254; then the
\* backend bit routine is not invoked and no element's constrained flag is
\* changed (elements created by the call are fresh); for count in [1,254]
\* the wrapper raises none and invokes the backend routine exactly once.
C10_BitCountRange ==
    [][(pc = "call" /\ pc' = "done") =>
        LET bad == inp.count < 1 \/ inp.count > 254
        IN  /\ RaisedByWrapper(store'.log) <=> bad
            /\ bad =>
                /\ BitRoutineCalls(store'.log) = {}
                /\ \A n \in DOMAIN store'.el :
                      store'.el[n].c = IF n \in DOMAIN store.el THEN store.el[n].c
                                       ELSE FALSE
            /\ ~bad => Cardinality(BitRoutineCalls(store'.log)) = 1]_vars

\* C10, the case: to_bits was called on a bound element with count = 255
\* and raised the failing assertion.
C10_Witness ==
    /\ pc = "done"
    /\ inp.kind = "to_bits"
    /\ inp.count = 255
    /\ inp.c
    /\ RaisedByWrapper(store.log)
    /\ store.el["self"].c

(***************************************************************************)
(* SpecCurve: scalar multiplications of one base point.                    *)
(***************************************************************************)
\* The points of the curve a x^2 + y^2 = 1 + d x^2 y^2.
CurvePoints ==
    {q \in Fp \X Fp :
        ((COEF_A % FIELD_P) * q[1] * q[1] + q[2] * q[2]) % FIELD_P
          = (1 + (COEF_D % FIELD_P) * q[1] * q[1] * q[2] * q[2]) % FIELD_P}

\* The group law on coordinates.
PointAdd(p, q) ==
    LET l == ((COEF_D % FIELD_P) * p[1] * q[1] * p[2] * q[2]) % FIELD_P
    IN  << ((p[1] * q[2] + p[2] * q[1]) * InvF((1 + l) % FIELD_P)) % FIELD_P,
           ((p[2] * q[2] + (FIELD_P - (COEF_A % FIELD_P)) * p[1] * q[1])
                * InvF((1 + FIELD_P - l) % FIELD_P)) % FIELD_P >>

\* k times p by repeated addition.
RECURSIVE KTimes(_, _)
KTimes(p, k) == IF k = 0 THEN <<0, 1>> ELSE PointAdd(KTimes(p, k - 1), p)

\* 2^n times p by n doublings.
RECURSIVE Doubled(_, _)
Doubled(p, n) == IF n = 0 THEN p ELSE Doubled(PointAdd(p, p), n - 1)

\* The point mirrored in the y axis, the group inverse.
Mirror(p) == <<(FIELD_P - p[1]) % FIELD_P, p[2]>>

\* Scalars k1 and k2 with a sum that is again a scalar.
SmallScalars == {0, 1, 5}

CurveInputs ==
    {[p |-> q, k1 |-> a, k2 |-> b, ref |-> <<>>, mid |-> <<0, 1>>]
        : q \in CurvePoints, a \in Fp, b \in SmallScalars}

CurveInit ==
    /\ store = EmptyStore
    /\ pc = "init"
    /\ inp \in {i \in CurveInputs : i.k1 + i.k2 < FIELD_P}

\* The caller constructs the base point and the scalars k1, k2, k1 + k2.
CurveArgs ==
    /\ pc = "init"
    /\ store' = from_u32(from_u32(from_u32(from_u32(from_u32(store,
                    X("P"), inp.p[1]), Y("P"), inp.p[2]),
                    "k1", inp.k1), "k2", inp.k2), "k3", inp.k1 + inp.k2)
    /\ pc' = "mul1"
    /\ UNCHANGED inp

\* The store in which the element x holds the value v instead of its own.
WithScalar(S, x, v) == [S EXCEPT !.val[S.el[x].h] = v]

\* r1 = P.scalar_mul(&k1); inp.ref becomes the log of the same call made
\* from the same store with the value of k2 in the scalar.
CurveMul1 ==
    /\ pc = "mul1"
    /\ store' = scalar_mul(Begin(store), "r1", "P", "k1")
    /\ inp' = [inp EXCEPT !.ref =
                 scalar_mul(Begin(WithScalar(store, "k1", inp.k2)), "r1", "P", "k1").log]
    /\ pc' = "mul2"

\* r2 = P.scalar_mul(&k2)
CurveMul2 ==
    /\ pc = "mul2"
    /\ store' = scalar_mul(Begin(store), "r2", "P", "k2")
    /\ pc' = "mul3"
    /\ UNCHANGED inp

\* r3 = P.scalar_mul(&k3)
CurveMul3 ==
    /\ pc = "mul3"
    /\ store' = scalar_mul(Begin(store), "r3", "P", "k3")
    /\ pc' = "add"
    /\ UNCHANGED inp

\* r4 = JubjubPoint::twisted_edward_add(&r1, &r2)
CurveAdd ==
    /\ pc = "add"
    /\ store' = twisted_edward_add(Begin(store), "r4", "r1", "r2")
    /\ pc' = "vargs"
    /\ UNCHANGED inp

\* The caller constructs a batch: the base points P and its mirror image,
\* the scalars k1 and k2.
CurveVecArgs ==
    /\ pc = "vargs"
    /\ store' = from_ui(from_ui(from_ui(Begin(store),
                    X("VP"), <<inp.p[1], Mirror(inp.p)[1]>>),
                    Y("VP"), <<inp.p[2], Mirror(inp.p)[2]>>),
                    "vk", <<inp.k1, inp.k2>>)
    /\ pc' = "vmul"
    /\ UNCHANGED inp

\* vr = VP.scalar_mul(&vk); inp.ref becomes the log of the same call made
\* with the scalars of the lanes exchanged.
CurveVecMul ==
    /\ pc = "vmul"
    /\ store' = vec_scalar_mul(Begin(store), "vr", "VP", "vk")
    /\ inp' = [inp EXCEPT !.ref =
                 vec_scalar_mul(Begin(WithScalar(store, "vk", <<inp.k2, inp.k1>>)),
                                "vr", "VP", "vk").log]
    /\ pc' = "done"

\* r5 = P.scalar_mul_extend(&k1, &k2), in its two parts; inp.mid becomes
\* the accumulator at the end of the loop over x2.
CurveMulExtend ==
    /\ pc = "done"
    /\ \E S1 \in {extend_first(Begin(store), "r5", "P", "k2")} :
         /\ inp' = [inp EXCEPT !.mid = PointV(S1, "r5")]
         /\ store' = extend_second(S1, "r5", "k1")
    /\ pc' = "ext"

\* vr5 = VP.scalar_mul_extend(&vk, &vk2), vk2 the scalars of vk exchanged
CurveVecMulExtend ==
    /\ pc = "ext"
    /\ store' = vec_scalar_mul_extend(from_ui(Begin(store), "vk2", <<inp.k2, inp.k1>>),
                                      "vr5", "VP", "vk", "vk2")
    /\ pc' = "vext"
    /\ UNCHANGED inp

CurveNext ==
    \/ CurveArgs \/ CurveMul1 \/ CurveMul2 \/ CurveMul3 \/ CurveAdd
    \/ CurveVecArgs \/ CurveVecMul \/ CurveMulExtend \/ CurveVecMulExtend

SpecCurve == CurveInit /\ [][CurveNext]_vars

\* C1: for one base point and any two scalars, scalar_mul and the batch
\* scalar_mul execute the same sequence of backend calls and assertions, in
\* kind, order and slots; only the values differ.
C1_ConstantShape == pc \in {"mul2", "done"} => store.log = inp.ref

C1_Witness ==
    /\ pc = "done"
    /\ inp.p = <<1, 3>> /\ inp.k1 = 1 /\ inp.k2 = 5
    /\ Len(store.log) > 100
    /\ V(store, X("vr"))[1] # V(store, X("vr"))[2]
    /\ PointV(store, "r1") # PointV(store, "r2")

\* C5: scalar_mul(P, 0) is (0,1), scalar_mul(P, 1) is P, scalar_mul(P, k1+k2)
\* is twisted_edward_add(scalar_mul(P, k1), scalar_mul(P, k2)) for small
\* k1, k2, and scalar_mul(P, k) is k times P.
C5_ScalarMulIsMultiple ==
    pc = "vargs" =>
        /\ inp.k1 = 0 => PointV(store, "r1") = <<0, 1>>
        /\ inp.k1 = 1 => PointV(store, "r1") = inp.p
        /\ PointV(store, "r3") = PointV(store, "r4")
        /\ PointV(store, "r1") = KTimes(inp.p, inp.k1)
        /\ PointV(store, "r2") = KTimes(inp.p, inp.k2)
        /\ PointV(store, "r3") = KTimes(inp.p, inp.k1 + inp.k2)

C5_Witness ==
    /\ pc = "vargs"
    /\ inp.p = <<1, 3>> /\ inp.k1 = 7 /\ inp.k2 = 5
    /\ ~store.failed
    /\ PointV(store, "r3") = PointV(store, "r4")
    /\ PointV(store, "r3") \notin {<<0, 1>>, inp.p, PointV(store, "r1")}

(***************************************************************************)
(* The point operations of one scalar_mul, read from the log of its        *)
(* backend calls.  Every twisted_edward_add makes two divmod calls, which  *)
(* write the coordinates of its result, and its operands are those of the  *)
(* two products before the first; every mux ends with                      *)
(* submod t a1 a0, mulmod m t cond, addmod out a0 m.                       *)
(***************************************************************************)
LogIndex(L) == [k \in 1..Len(L) |-> k]

DivAt(L) == SelectSeq(LogIndex(L), LAMBDA k : L[k][1] = "divmod")

\* The twisted_edward_add calls in order: slots of a, b and the result.
Adds(L) ==
    [j \in 1..(Len(DivAt(L)) \div 2) |->
        [a   |-> <<L[DivAt(L)[2 * j - 1] - 11][3], L[DivAt(L)[2 * j - 1] - 9][3]>>,
         b   |-> <<L[DivAt(L)[2 * j - 1] - 9][4], L[DivAt(L)[2 * j - 1] - 11][4]>>,
         out |-> <<L[DivAt(L)[2 * j - 1]][2], L[DivAt(L)[2 * j]][2]>>,
         at  |-> DivAt(L)[2 * j - 1]]]

IsMuxEnd(L, k) ==
    /\ k > 6
    /\ L[k][1] = "addmod" /\ L[k - 1][1] = "free"
    /\ L[k - 3][1] = "mulmod" /\ L[k - 6][1] = "submod"
    /\ L[k][4] = L[k - 3][2] /\ L[k - 3][3] = L[k - 6][2] /\ L[k][3] = L[k - 6][4]

MuxAt(L) == SelectSeq(LogIndex(L), LAMBDA k : IsMuxEnd(L, k))

\* The JubjubPoint::mux2 calls in order, six mux calls each: slots of the
\* selectors s0, s1 and of the result.
PointMuxes(L) ==
    [j \in 1..(Len(MuxAt(L)) \div 6) |->
        [s0  |-> {L[MuxAt(L)[6 * j - k] - 3][4] : k \in {5, 4, 2, 1}},
         s1  |-> {L[MuxAt(L)[6 * j - k] - 3][4] : k \in {3, 0}},
         out |-> <<L[MuxAt(L)[6 * j - 3]][2], L[MuxAt(L)[6 * j]][2]>>,
         at  |-> MuxAt(L)[6 * j]]]

ToBitsAt(L) == SelectSeq(LogIndex(L), LAMBDA k : L[k][1] = "to_bits_checked")

\* The slot of bits[i] of the vector filled by the to_bits call at tb: the
\* vector is built from count - 1 clones of one element followed by that
\* element.
BitSlot(L, tb, i) ==
    IF i = ScalarBits - 1 THEN L[tb - 1][3]
    ELSE L[tb - 1 - 2 * (ScalarBits - 2 - i)][2]

\* scalar_mul has returned r1, r2 or r3, and store.log is the log of the call.
AfterScalarMul == pc \in {"mul2", "mul3", "add"}

\* One iteration on the window at bits i, i+1 of the vector of tb: the
\* additions first, first + 1 double the accumulator, which was prev, and
\* addition first + 2 adds the result of the mux2 numbered sel.
IterationShape(L, tb, first, sel, prev, i) ==
    /\ Adds(L)[first].a = prev
    /\ Adds(L)[first].b = prev
    /\ Adds(L)[first + 1].a = Adds(L)[first].out
    /\ Adds(L)[first + 1].b = Adds(L)[first].out
    /\ Adds(L)[first + 1].at < PointMuxes(L)[sel].at
    /\ PointMuxes(L)[sel].at < Adds(L)[first + 2].at
    /\ PointMuxes(L)[sel].s0 = {BitSlot(L, tb, i)}
    /\ PointMuxes(L)[sel].s1 = {BitSlot(L, tb, i + 1)}
    /\ Adds(L)[first + 2].a = Adds(L)[first + 1].out
    /\ Adds(L)[first + 2].b = PointMuxes(L)[sel].out

\* The accumulator before the addition numbered first.
AccBefore(L, first) ==
    IF first = 3 THEN PointMuxes(L)[1].out ELSE Adds(L)[first - 1].out

\* The accumulator is seeded by one mux2 on the two highest bits, and n
\* iterations follow, highest pair first, each of two doublings of the
\* accumulator and one addition of the mux2 of its window; w2 and w3 are
\* the first two additions.
LadderShape(L, n) ==
    /\ Len(ToBitsAt(L)) = 1
    /\ Len(PointMuxes(L)) = n + 1
    /\ Len(MuxAt(L)) = 6 * (n + 1)
    /\ Len(Adds(L)) = 2 + 3 * n
    /\ Len(DivAt(L)) = 2 * (2 + 3 * n)
    /\ PointMuxes(L)[1].s0 = {BitSlot(L, ToBitsAt(L)[1], ScalarBits - 2)}
    /\ PointMuxes(L)[1].s1 = {BitSlot(L, ToBitsAt(L)[1], ScalarBits - 1)}
    /\ PointMuxes(L)[1].at > Adds(L)[2].at
    /\ \A j \in 1..n :
         IterationShape(L, ToBitsAt(L)[1], 3 * j, j + 1, AccBefore(L, 3 * j),
                        ScalarBits - 2 - 2 * j)

\* scalar_mul_extend: the ladder of scalar_mul on the bits of the first
\* to_bits, then, on the same accumulator, one iteration for every window
\* of the second to_bits, highest pair first; the last addition writes the
\* returned point.
ExtendShape(L, S, out) ==
    /\ Len(ToBitsAt(L)) = 2
    /\ Len(PointMuxes(L)) = 2 * NumWindows
    /\ Len(MuxAt(L)) = 12 * NumWindows
    /\ Len(Adds(L)) = 2 + 3 * (2 * NumWindows - 1)
    /\ Len(DivAt(L)) = 2 * Len(Adds(L))
    /\ PointMuxes(L)[1].s0 = {BitSlot(L, ToBitsAt(L)[1], ScalarBits - 2)}
    /\ PointMuxes(L)[1].s1 = {BitSlot(L, ToBitsAt(L)[1], ScalarBits - 1)}
    /\ PointMuxes(L)[1].at > Adds(L)[2].at
    /\ \A j \in 1..(NumWindows - 1) :
         IterationShape(L, ToBitsAt(L)[1], 3 * j, j + 1, AccBefore(L, 3 * j),
                        ScalarBits - 2 - 2 * j)
    /\ ToBitsAt(L)[2] > PointMuxes(L)[NumWindows].at
    /\ ToBitsAt(L)[2] < Adds(L)[3 * NumWindows].at
    /\ \A j \in 1..NumWindows :
         IterationShape(L, ToBitsAt(L)[2], 3 * (NumWindows - 1 + j), NumWindows + j,
                        AccBefore(L, 3 * (NumWindows - 1 + j)), ScalarBits - 2 * j)
    /\ Adds(L)[Len(Adds(L))].out = <<H(S, X(out)), H(S, Y(out))>>

\* C21 as stated: after the seeding mux2 the loop runs as many iterations as
\* the scalar has windows (127 for 254 bits).
C21_AsStated == AfterScalarMul => LadderShape(store.log, NumWindows)

\* C21: scalar_mul seeds the accumulator with a single mux2 on the two
\* most-significant scalar bits and then runs one iteration for each of the
\* other windows (126 for 254 bits), most-significant pair first, each of
\* two doublings of the accumulator followed by one addition of the
\* mux2-selected window value.
C21_SeedThenLoop == AfterScalarMul => LadderShape(store.log, NumWindows - 1)

C21_Witness ==
    /\ pc = "mul2"
    /\ inp.p = <<1, 3>> /\ inp.k1 = 7
    /\ Len(Adds(store.log)) = 2 + 3 * (NumWindows - 1)
    /\ Len(PointMuxes(store.log)) = NumWindows
    /\ PointV(store, "r1") = KTimes(inp.p, 7)

PublicKeys == {<<0, 1>>, <<1, 3>>, <<4, 6>>}

Challenges == {0, 2, 5}

EddsaInit ==
    /\ store = EmptyStore
    /\ pc = "init"
    /\ inp \in [r : CurvePoints, s : Fp, pk : PublicKeys, c : Challenges]

\* The caller constructs the challenge, the public key and the signature.
EddsaArgs ==
    /\ pc = "init"
    /\ store' = Only({Only({
                    from_str(S2, SigS("sig"), inp.s)
                    : S2 \in {from_str(from_str(S1, X(SigR("sig")), inp.r[1]),
                                       Y(SigR("sig")), inp.r[2])}})
                    : S1 \in {from_str(from_str(from_u32(store, "digest", inp.c),
                                       X("pk"), inp.pk[1]), Y("pk"), inp.pk[2])}})
    /\ pc' = "verify"
    /\ UNCHANGED inp

\* EddsaSignature::verify(&mut sig, &mut pk, &mut digest)
EddsaVerify ==
    /\ pc = "verify"
    /\ store' = verify(Begin(store), "sig", "pk", "digest")
    /\ pc' = "verified"
    /\ UNCHANGED inp

EddsaNext == EddsaArgs \/ EddsaVerify

SpecEddsa == EddsaInit /\ [][EddsaNext]_vars

\* The two sides of the verification equation.
LeftSide == KTimes(<<GENERATOR_X, GENERATOR_Y>>, inp.s)

RightSide == PointAdd(inp.r, KTimes(inp.pk, inp.c))

\* The call ends with an equality assertion on the x coordinates and one on
\* the y coordinates of the points sg and p, which are then freed with g.
EqualityOnBothCoordinates(log) ==
    LET n == Len(log)
    IN  /\ n >= 8
        /\ \A i \in (n - 5)..n : log[i][1] = "free"
        /\ log[n - 7] = <<"assert_equal", log[n - 3][2], log[n - 5][2]>>
        /\ log[n - 6] = <<"assert_equal", log[n - 2][2], log[n - 4][2]>>
        /\ log[n - 3][2] # log[n - 2][2]

\* C4: verify fails an equality assertion exactly when S.G differs from
\* R + challenge.PK in a coordinate, and no other assertion of the call
\* fails; with equal points the call completes having asserted equality of
\* the x coordinates and of the y coordinates.
C4_VerifyFailsIffPointsDiffer ==
    pc = "verified" =>
        /\ store.failed <=> LeftSide # RightSide
        /\ \A i \in DOMAIN store.log :
              store.log[i][1] = "assert_one" => store.log[i][2]
        /\ EqualityOnBothCoordinates(store.log)

C4_Witness ==
    /\ pc = "verified"
    /\ inp.s = 3 /\ inp.c = 2 /\ inp.pk = <<4, 6>>
    /\ LeftSide = RightSide
    /\ ~store.failed
    /\ EqualityOnBothCoordinates(store.log)

(***************************************************************************)
(* Sponge hashes.  A field value of a context is a tuple with one entry    *)
(* per lane: one lane for the contexts over Bn254Fr, NumLanes for the      *)
(* contexts over VBn254Fr.  The trace of a context lists the steps of the  *)
(* permutations run by the last operation on it.                           *)
(***************************************************************************)
LaneConst(lanes, k) == [l \in 1..lanes |-> k % FIELD_P]

LaneAdd(x, y) == [l \in DOMAIN x |-> (x[l] + y[l]) % FIELD_P]

LaneMul(x, y) == [l \in DOMAIN x |-> (x[l] * y[l]) % FIELD_P]

(***************************************************************************)
(* Family A: PoseidonContext<P> and VPoseidonContext<P>.                   *)
(***************************************************************************)
R_F == 8

R_P(T) == IF T = 5 THEN 60 ELSE 57

\* arc_const[i] and mds_const[i]: the tables are opaque constants of the
\* parameter set; these values stand for them.
ArcConst(T, i) == (i * i + 3 * i + T) % FIELD_P

MdsConst(T, i) == (2 * i + T + 1) % FIELD_P

\* PoseidonContext::new / VPoseidonContext::new
poseidon_new(T, lanes) ==
    [T |-> T, lanes |-> lanes,
     state |-> [i \in 0..(T - 1) |-> LaneConst(lanes, 0)],
     curr |-> 0, arc |-> 0, trace |-> <<>>]

\* PoseidonContext::pow5 / VPoseidonContext::pow5
pow5(x) ==
    Only({Only({
        LaneMul(x4, x)
        : x4 \in {LaneMul(x2, x2)}})
        : x2 \in {LaneMul(x, x)}})

\* The first loop of perm with constants for the S-box slots alone.
add_round_constants_active(c, full_round) ==
    LET n == IF full_round THEN c.T ELSE 1
    IN  [c EXCEPT
          !.state = [i \in 0..(c.T - 1) |->
                        IF i < n THEN LaneAdd(c.state[i], LaneConst(c.lanes, ArcConst(c.T, c.arc + i)))
                        ELSE c.state[i]],
          !.arc = c.arc + n,
          !.trace = @ \o [i \in 1..n |-> <<"arc", i - 1, c.arc + i - 1>>]]

\* The first loop of perm: state[i] += arc_const[*arc_counter]; *arc_counter += 1
add_round_constants(c, full_round) ==
    [c EXCEPT
      !.state = [i \in 0..(c.T - 1) |->
                    LaneAdd(c.state[i], LaneConst(c.lanes, ArcConst(c.T, c.arc + i)))],
      !.arc = c.arc + c.T,
      !.trace = @ \o [i \in 1..c.T |-> <<"arc", i - 1, c.arc + i - 1>>]]

\* The second loop of perm: state[i] = pow5(state[i]) for i < num_s_box
s_box(c, full_round) ==
    LET num_s_box == IF full_round THEN c.T ELSE 1
    IN  [c EXCEPT
          !.state = [i \in 0..(c.T - 1) |->
                        IF i < num_s_box THEN pow5(c.state[i]) ELSE c.state[i]],
          !.trace = @ \o [i \in 1..num_s_box |-> <<"sbox", i - 1>>]]

\* sum over j < n of mds_const[i * T + j] * old_state[j]
RECURSIVE MdsRow(_, _, _, _)
MdsRow(c, old, i, n) ==
    IF n = 0 THEN LaneConst(c.lanes, 0)
    ELSE LaneAdd(MdsRow(c, old, i, n - 1),
                 LaneMul(LaneConst(c.lanes, MdsConst(c.T, i * c.T + n - 1)), old[n - 1]))

\* The last loop of perm, on old_state = state.clone()
mds_multiply(c) ==
    [c EXCEPT
      !.state = [i \in 0..(c.T - 1) |-> MdsRow(c, c.state, i, c.T)],
      !.trace = Append(@, <<"mds">>)]

\* A round that applies the S-box before it adds the constants.
perm_sbox_first(c0, full_round) ==
    Only({Only({Only({
        mds_multiply(c3)
        : c3 \in {add_round_constants(c2, full_round)}})
        : c2 \in {s_box(c1, full_round)}})
        : c1 \in {[c0 EXCEPT !.trace = Append(@, <<"round", full_round>>)]}})

\* PoseidonContext::perm / VPoseidonContext::perm; arc_counter is c.arc
perm(c0, full_round) ==
    Only({Only({Only({
        mds_multiply(c3)
        : c3 \in {s_box(c2, full_round)}})
        : c2 \in {add_round_constants(c1, full_round)}})
        : c1 \in {[c0 EXCEPT !.trace = Append(@, <<"round", full_round>>)]}})

\* for _ in 0..n { self.perm(&mut arc_counter, full_round) }: the first half
\* of the iterations, then the rest (halves keep the evaluation shallow).
RECURSIVE perm_rounds(_, _, _)
perm_rounds(c0, n, full_round) ==
    IF n = 0 THEN c0
    ELSE IF n = 1 THEN perm(c0, full_round)
    ELSE Only({ perm_rounds(c, n - (n \div 2), full_round)
                : c \in {perm_rounds(c0, n \div 2, full_round)} })

\* PoseidonContext::internal_round_update / VPoseidonContext's
internal_round_update(c0) ==
    Only({Only({Only({
        perm_rounds(c3, R_F \div 2, TRUE)
        : c3 \in {perm_rounds(c2, R_P(c0.T), FALSE)}})
        : c2 \in {perm_rounds(c1, R_F \div 2, TRUE)}})
        : c1 \in {[c0 EXCEPT !.arc = 0, !.trace = Append(@, <<"perm">>)]}})

\* PoseidonContext::reset / VPoseidonContext::reset
poseidon_reset(c) ==
    [c EXCEPT !.state = [i \in 0..(c.T - 1) |-> LaneConst(c.lanes, 0)], !.curr = 0]

\* An update that permutes one element late.
poseidon_update_late(c0, data) ==
    Only({
        IF c1.curr > c1.T THEN [internal_round_update(c1) EXCEPT !.curr = 0] ELSE c1
        : c1 \in {[c0 EXCEPT !.state[c0.curr % c0.T] = LaneAdd(@, data), !.curr = @ + 1]}})

\* PoseidonContext::update / VPoseidonContext::update
poseidon_update(c0, data) ==
    Only({
        IF c1.curr >= c1.T THEN [internal_round_update(c1) EXCEPT !.curr = 0] ELSE c1
        : c1 \in {[c0 EXCEPT !.state[c0.curr] = LaneAdd(@, data), !.curr = @ + 1]}})

\* A finalize that always permutes.
poseidon_finalize_always(c0) ==
    Only({ [c |-> c1, out |-> c1.state[0]]
           : c1 \in {[internal_round_update(c0) EXCEPT !.curr = 0]} })

\* PoseidonContext::finalize / VPoseidonContext::finalize: the context and
\* the returned clone of state[0]
poseidon_finalize(c0) ==
    Only({ [c |-> c1, out |-> c1.state[0]]
           : c1 \in {IF c0.curr # 0
                     THEN [internal_round_update(c0) EXCEPT !.curr = 0]
                     ELSE c0} })

(***************************************************************************)
(* SpecPoseidon: the public operations of one Family A context, in any     *)
(* order.  store.n, store.perms and store.fins count the updates, the      *)
(* permutations and the finalize calls since the context was new or reset. *)
(***************************************************************************)
MaxSpongeOps == 7

SpongeData == {1, 2}

PermCount(trace) == Cardinality({i \in DOMAIN trace : trace[i] = <<"perm">>})

\* The context at the start of an operation: the trace is that of one call.
BeginOp(c) == [c EXCEPT !.trace = <<>>]

PoseidonInit ==
    /\ pc = "run"
    /\ inp \in [T : {3, 5}, lanes : {1, NumLanes}]
    /\ store = [ctx |-> poseidon_new(inp.T, inp.lanes), op |-> "none",
                ops |-> 0, n |-> 0, perms |-> 0, fins |-> 0,
                out |-> LaneConst(inp.lanes, 0)]

SpongeNew ==
    /\ pc = "run"
    /\ store.ops < MaxSpongeOps
    /\ store' = [store EXCEPT !.ctx = poseidon_new(inp.T, inp.lanes), !.op = "new",
                              !.ops = @ + 1, !.n = 0, !.perms = 0, !.fins = 0]
    /\ UNCHANGED <<pc, inp>>

SpongeReset ==
    /\ pc = "run"
    /\ store.ops < MaxSpongeOps
    /\ store' = [store EXCEPT !.ctx = poseidon_reset(BeginOp(store.ctx)), !.op = "reset",
                              !.ops = @ + 1, !.n = 0, !.perms = 0, !.fins = 0]
    /\ UNCHANGED <<pc, inp>>

SpongeUpdate ==
    /\ pc = "run"
    /\ store.ops < MaxSpongeOps
    /\ \E d \in SpongeData :
         \E c \in {poseidon_update(BeginOp(store.ctx), LaneConst(inp.lanes, d))} :
            store' = [store EXCEPT !.ctx = c, !.op = "update", !.ops = @ + 1,
                                   !.n = @ + 1, !.perms = @ + PermCount(c.trace)]
    /\ UNCHANGED <<pc, inp>>

SpongeFinalize ==
    /\ pc = "run"
    /\ store.ops < MaxSpongeOps
    /\ \E r \in {poseidon_finalize(BeginOp(store.ctx))} :
          store' = [store EXCEPT !.ctx = r.c, !.out = r.out, !.op = "finalize",
                                 !.ops = @ + 1, !.fins = @ + 1,
                                 !.perms = @ + PermCount(r.c.trace)]
    /\ UNCHANGED <<pc, inp>>

PoseidonNext == SpongeNew \/ SpongeReset \/ SpongeUpdate \/ SpongeFinalize

SpecPoseidon == PoseidonInit /\ [][PoseidonNext]_vars

\* C11: after every operation 0 <= curr < T; an update at curr = T-1 runs
\* exactly one permutation and leaves curr = 0; an update at curr < T-1 runs
\* no permutation and increases curr by one.
C11_CurrInRange ==
    /\ [](store.ctx.curr \in 0..(store.ctx.T - 1))
    /\ [][store'.op = "update" =>
            IF store.ctx.curr = store.ctx.T - 1
            THEN PermCount(store'.ctx.trace) = 1 /\ store'.ctx.curr = 0
            ELSE PermCount(store'.ctx.trace) = 0
                 /\ store'.ctx.curr = store.ctx.curr + 1]_vars

C11_Witness ==
    /\ store.op = "update" /\ store.ctx.T = 5 /\ store.ctx.lanes = NumLanes
    /\ store.n = 5 /\ store.ctx.curr = 0
    /\ PermCount(store.ctx.trace) = 1

\* C12: finalize runs one permutation when curr # 0 and none when curr = 0,
\* leaves curr = 0 and returns a copy of slot 0; on a fresh context n
\* updates and a finalize run ceil(n/T) permutations, and with n = 0 the
\* result is the initial slot 0.
C12_FinalizePermutesPending ==
    /\ [][store'.op = "finalize" =>
            /\ PermCount(store'.ctx.trace) = (IF store.ctx.curr # 0 THEN 1 ELSE 0)
            /\ store'.ctx.curr = 0
            /\ store'.out = store'.ctx.state[0]]_vars
    /\ [](store.op = "finalize" /\ store.fins = 1 =>
            /\ store.perms = (store.n + store.ctx.T - 1) \div store.ctx.T
            /\ store.n = 0 => store.out = LaneConst(store.ctx.lanes, 0))

C12_Witness ==
    /\ store.op = "finalize" /\ store.fins = 1
    /\ store.ctx.T = 5 /\ store.n = 6 /\ store.perms = 2
    /\ PermCount(store.ctx.trace) = 1
    /\ store.out = store.ctx.state[0]

(***************************************************************************)
(* The rounds of a traced permutation.                                     *)
(***************************************************************************)
IsRound(e) == e[1] = "round"

IsArc(e) == e[1] = "arc"

IsSBox(e) == e[1] = "sbox"

\* The positions of the round markers of a trace.
RoundStarts(tr) == {i \in DOMAIN tr : IsRound(tr[i])}

\* The steps of the round that starts at position i.
RoundSteps(tr, i) ==
    LET later == {j \in RoundStarts(tr) : j > i}
        end == IF later = {} THEN Len(tr)
               ELSE (CHOOSE j \in later : \A k \in later : j <= k) - 1
    IN  SubSeq(tr, i + 1, end)

\* The slots 0 .. n-1 in order, as steps of the given kind.
SlotsInOrder(seq, n) == Len(seq) = n /\ \A k \in 1..n : seq[k][2] = k - 1

\* The full / partial flags of 4 full, rp partial and 4 full rounds.
RoundFlags(rp) == [k \in 1..(rp + 8) |-> k <= 4 \/ k > rp + 4]

Permuted == PermCount(store.ctx.trace) = 1

\* C19: a permutation runs 4 full rounds, R_P partial rounds (60 for T = 5,
\* 57 for T = 3) and 4 full rounds, in that order; every round adds round
\* constants, then applies the S-box, then multiplies by the matrix; the
\* S-box is applied to all T slots in a full round and to slot 0 in a
\* partial round; the constants are taken in sequence from index 0.
C19_RoundStructure ==
    Permuted =>
        LET tr == store.ctx.trace
            T == store.ctx.T
            arcs == SelectSeq(tr, IsArc)
        IN  /\ tr[1] = <<"perm">>
            /\ [k \in 1..Cardinality(RoundStarts(tr)) |-> SelectSeq(tr, IsRound)[k][2]]
                 = RoundFlags(IF T = 5 THEN 60 ELSE 57)
            /\ \A k \in DOMAIN arcs : arcs[k][3] = k - 1
            /\ \A i \in RoundStarts(tr) :
                 LET steps == RoundSteps(tr, i)
                     na == Len(SelectSeq(steps, IsArc))
                     ns == Len(SelectSeq(steps, IsSBox))
                 IN  /\ na > 0
                     /\ Len(steps) = na + ns + 1
                     /\ \A k \in 1..na : IsArc(steps[k])
                     /\ SlotsInOrder(SelectSeq(steps, IsSBox), IF tr[i][2] THEN T ELSE 1)
                     /\ \A k \in (na + 1)..(na + ns) : IsSBox(steps[k])
                     /\ steps[Len(steps)] = <<"mds">>

C19_Witness ==
    /\ Permuted
    /\ store.ctx.T = 3 /\ store.ctx.lanes = NumLanes
    /\ Cardinality(RoundStarts(store.ctx.trace)) = 65
    /\ store.ctx.arc = 195

\* C20 as stated: the slots that receive a round constant are the slots
\* the S-box is applied to, in every round.
C20_AsStated ==
    Permuted =>
        \A i \in RoundStarts(store.ctx.trace) :
            LET steps == RoundSteps(store.ctx.trace, i)
            IN  {e[2] : e \in {steps[k] : k \in {j \in DOMAIN steps : IsArc(steps[j])}}}
                  = {e[2] : e \in {steps[k] : k \in {j \in DOMAIN steps : IsSBox(steps[j])}}}

\* C20: in every round, full or partial, each of the T slots receives one
\* round constant, slot 0 first; the S-box is then applied to all T slots in
\* a full round and to slot 0 alone in a partial round.
C20_ConstantsOnAllSlots ==
    Permuted =>
        \A i \in RoundStarts(store.ctx.trace) :
            LET steps == RoundSteps(store.ctx.trace, i)
            IN  /\ SlotsInOrder(SelectSeq(steps, IsArc), store.ctx.T)
                /\ SlotsInOrder(SelectSeq(steps, IsSBox),
                                IF store.ctx.trace[i][2] THEN store.ctx.T ELSE 1)

C20_Witness ==
    /\ Permuted
    /\ store.ctx.T = 5 /\ store.ctx.lanes = 1
    /\ \E i \in RoundStarts(store.ctx.trace) :
          /\ ~store.ctx.trace[i][2]
          /\ Len(SelectSeq(RoundSteps(store.ctx.trace, i), IsArc)) = 5
          /\ Len(SelectSeq(RoundSteps(store.ctx.trace, i), IsSBox)) = 1

\* C17: every allocated slot that has not been freed is the slot of a live
\* element, no slot is freed twice, and no two live elements hold the same
\* slot.
C17_SlotsOwnedOnce ==
    /\ \A h \in store.live : \E n \in DOMAIN store.el : store.el[n].h = h
    /\ ~store.dfree
    /\ \A m, n \in DOMAIN store.el : m # n => store.el[m].h # store.el[n].h

(***************************************************************************)
(* Family B: Poseidon2Context and VPoseidon2Context (state size 2).        *)
(* A context is [lanes, state, buffer, buffer_len, temp, trace, panicked]; *)
(* the buffer is a sequence of CHUNK_BYTES bytes, position k of the source *)
(* at index k + 1.                                                         *)
(***************************************************************************)
\* The chunk length, 31 in the source: a chunk is below the modulus there,
\* and its integer is kept unreduced in the trace here.
CHUNK_BYTES == 2

PAD_BYTE == 128

POSEIDON2_BN254_RP == 56

\* rc[i] / POSEIDON2_T2_RC_VEC[i]: the table is an opaque constant; these
\* values stand for it.
RcConst(i) == (i * i + 5 * i + 2) % FIELD_P

\* Bn254Fr::set_bytes_big / VBn254Fr::set_bytes_scalar: the big-endian integer
RECURSIVE set_bytes_big(_)
set_bytes_big(bytes) ==
    IF bytes = <<>> THEN 0
    ELSE set_bytes_big(SubSeq(bytes, 1, Len(bytes) - 1)) * 256 + bytes[Len(bytes)]

\* Poseidon2Context::new / VPoseidon2Context::new
poseidon2_new(lanes) ==
    [lanes |-> lanes,
     state |-> [i \in 0..1 |-> LaneConst(lanes, 0)],
     buffer |-> [k \in 1..CHUNK_BYTES |-> 0],
     buffer_len |-> 0,
     temp |-> LaneConst(lanes, 0),
     trace |-> <<>>,
     panicked |-> FALSE]

\* digest_init
digest_init(c) ==
    [c EXCEPT !.state = [i \in 0..1 |-> LaneConst(c.lanes, 0)],
              !.buffer_len = 0,
              !.buffer = [k \in 1..CHUNK_BYTES |-> 0]]

\* add_round_constants(round)
p2_add_round_constants(c, round) ==
    [c EXCEPT
      !.state = [i \in 0..1 |-> LaneAdd(c.state[i], LaneConst(c.lanes, RcConst(round * 2 + i)))],
      !.trace = @ \o <<<<"arc", 0, round * 2>>, <<"arc", 1, round * 2 + 1>>>>]

\* add_round_constants_partial(round)
add_round_constants_partial(c, round) ==
    [c EXCEPT
      !.state[0] = LaneAdd(@, LaneConst(c.lanes, RcConst(round * 2))),
      !.trace = Append(@, <<"arc", 0, round * 2>>)]

\* sbox_full
sbox_full(c) ==
    [c EXCEPT !.state = [i \in 0..1 |-> pow5(c.state[i])],
              !.trace = @ \o <<<<"sbox", 0>>, <<"sbox", 1>>>>]

\* sbox_partial
sbox_partial(c) ==
    [c EXCEPT !.state[0] = pow5(@), !.trace = Append(@, <<"sbox", 0>>)]

\* multiply_external_mds: temp = s0 + s1; s0 += temp; s1 += temp
multiply_external_mds(c0) ==
    Only({Only({Only({
        [c3 EXCEPT !.trace = Append(@, <<"mix", "external", c0.state, c3.state>>)]
        : c3 \in {[c2 EXCEPT !.state[1] = LaneAdd(@, c2.temp)]}})
        : c2 \in {[c1 EXCEPT !.state[0] = LaneAdd(@, c1.temp)]}})
        : c1 \in {[c0 EXCEPT !.temp = LaneAdd(c0.state[0], c0.state[1])]}})

\* An internal mix with the matrix of the external one.
multiply_internal_mds_symmetric(c0) ==
    Only({Only({Only({
        [c3 EXCEPT !.trace = Append(@, <<"mix", "internal", c0.state, c3.state>>)]
        : c3 \in {[c2 EXCEPT !.state[1] = LaneAdd(@, c2.temp)]}})
        : c2 \in {[c1 EXCEPT !.state[0] = LaneAdd(@, c1.temp)]}})
        : c1 \in {[c0 EXCEPT !.temp = LaneAdd(c0.state[0], c0.state[1])]}})

\* multiply_internal_mds: temp = s0 + s1; s0 += temp; temp += s1; s1 += temp
multiply_internal_mds(c0) ==
    Only({Only({Only({Only({
        [c4 EXCEPT !.trace = Append(@, <<"mix", "internal", c0.state, c4.state>>)]
        : c4 \in {[c3 EXCEPT !.state[1] = LaneAdd(@, c3.temp)]}})
        : c3 \in {[c2 EXCEPT !.temp = LaneAdd(@, c2.state[1])]}})
        : c2 \in {[c1 EXCEPT !.state[0] = LaneAdd(@, c1.temp)]}})
        : c1 \in {[c0 EXCEPT !.temp = LaneAdd(c0.state[0], c0.state[1])]}})

\* The body of the partial-round loop of permute
partial_round(c0, round) ==
    Only({Only({Only({
        multiply_internal_mds(c3)
        : c3 \in {sbox_partial(c2)}})
        : c2 \in {add_round_constants_partial(c1, round)}})
        : c1 \in {[c0 EXCEPT !.trace = Append(@, <<"round", FALSE>>)]}})

\* The body of the two full-round loops of permute
full_round(c0, round) ==
    Only({Only({Only({
        multiply_external_mds(c3)
        : c3 \in {sbox_full(c2)}})
        : c2 \in {p2_add_round_constants(c1, round)}})
        : c1 \in {[c0 EXCEPT !.trace = Append(@, <<"round", TRUE>>)]}})

\* n iterations of a round loop of permute starting at the given round: the
\* first half of the iterations, then the rest.
RECURSIVE round_loop(_, _, _, _)
round_loop(c0, round, n, full) ==
    IF n = 0 THEN c0
    ELSE IF n = 1 THEN (IF full THEN full_round(c0, round) ELSE partial_round(c0, round))
    ELSE Only({ round_loop(c, round + (n \div 2), n - (n \div 2), full)
                : c \in {round_loop(c0, round, n \div 2, full)} })

\* Poseidon2Context::permute / VPoseidon2Context::permute
permute(c0) ==
    Only({Only({Only({Only({
        round_loop(c4, 4 + POSEIDON2_BN254_RP, 4, TRUE)
        : c4 \in {round_loop(c3, 4, POSEIDON2_BN254_RP, FALSE)}})
        : c3 \in {round_loop(c2, 0, 4, TRUE)}})
        : c2 \in {multiply_external_mds(c1)}})
        : c1 \in {[c0 EXCEPT !.trace = Append(@, <<"perm">>)]}})

\* digest_update
digest_update(c0, data) ==
    Only({ permute(c1)
           : c1 \in {[c0 EXCEPT !.state[0] = LaneAdd(@, data)]} })

\* temp.set_bytes_big(chunk); state[0].addmod_checked(&temp); permute()
absorb_chunk(c0, chunk) ==
    Only({Only({Only({
        permute(c3)
        : c3 \in {[c2 EXCEPT !.trace = Append(@, <<"absorb", set_bytes_big(chunk)>>)]}})
        : c2 \in {[c1 EXCEPT !.state[0] = LaneAdd(@, c1.temp)]}})
        : c1 \in {[c0 EXCEPT !.temp = LaneConst(c0.lanes, set_bytes_big(chunk))]}})

\* The first loop of digest_update_bytes: while remaining >= 31
RECURSIVE chunk_loop(_, _)
chunk_loop(c0, data) ==
    IF Len(data) < CHUNK_BYTES THEN [c |-> c0, rest |-> data]
    ELSE Only({ chunk_loop(c1, SubSeq(data, CHUNK_BYTES + 1, Len(data)))
                : c1 \in {absorb_chunk(c0, SubSeq(data, 1, CHUNK_BYTES))} })

\* One iteration of the second loop of digest_update_bytes; the write to
\* buffer[buffer_len] is out of bounds when buffer_len is the buffer's length.
buffer_byte(c0, byte) ==
    IF c0.panicked THEN c0
    ELSE IF c0.buffer_len >= CHUNK_BYTES THEN [c0 EXCEPT !.panicked = TRUE]
    ELSE Only({
        IF c1.buffer_len >= CHUNK_BYTES
        THEN [absorb_chunk(c1, c1.buffer) EXCEPT !.buffer_len = 0]
        ELSE c1
        : c1 \in {[c0 EXCEPT !.buffer[c0.buffer_len + 1] = byte, !.buffer_len = @ + 1]}})

\* The second loop of digest_update_bytes: for &byte in &data[offset..]
RECURSIVE buffer_loop(_, _)
buffer_loop(c0, rest) ==
    IF rest = <<>> THEN c0
    ELSE Only({ buffer_loop(c1, Tail(rest)) : c1 \in {buffer_byte(c0, Head(rest))} })

\* Poseidon2Context::digest_update_bytes / VPoseidon2Context's
digest_update_bytes(c0, data) ==
    Only({ buffer_loop(r.c, r.rest) : r \in {chunk_loop(c0, data)} })

\* The buffer after the marker byte and the zero fill of digest_final
pad_buffer(c, marker) ==
    [k \in 1..CHUNK_BYTES |->
        IF k <= c.buffer_len THEN c.buffer[k]
        ELSE IF k = c.buffer_len + 1 THEN marker
        ELSE 0]

\* A digest_final that fills the buffer with zero bytes alone.
digest_final_unmarked(c0) ==
    IF c0.buffer_len >= CHUNK_BYTES
    THEN [c |-> [c0 EXCEPT !.panicked = TRUE], out |-> c0.state[0]]
    ELSE Only({Only({
        [c |-> c2, out |-> c2.state[0]]
        : c2 \in {absorb_chunk(c1, c1.buffer)}})
        : c1 \in {[c0 EXCEPT !.buffer = pad_buffer(c0, 0), !.buffer_len = CHUNK_BYTES]}})

\* Poseidon2Context::digest_final / VPoseidon2Context's: the context and the
\* returned clone of state[0]; the write of the marker is out of bounds when
\* buffer_len is the buffer's length.
digest_final(c0) ==
    IF c0.buffer_len >= CHUNK_BYTES
    THEN [c |-> [c0 EXCEPT !.panicked = TRUE], out |-> c0.state[0]]
    ELSE Only({Only({
        [c |-> c2, out |-> c2.state[0]]
        : c2 \in {absorb_chunk(c1, c1.buffer)}})
        : c1 \in {[c0 EXCEPT !.buffer = pad_buffer(c0, PAD_BYTE), !.buffer_len = CHUNK_BYTES]}})

(***************************************************************************)
(* SpecPoseidon2: the public operations of one Family B context, in any    *)
(* order, until one of them panics.  store.hist lists the operations since *)
(* the context was new or initialised, store.tape their absorptions and    *)
(* permutations, store.data the bytes of the last digest_update_bytes and   *)
(* store.fed the bytes of all of them.                                     *)
(***************************************************************************)
MaxDigestOps == 3

MaxDataLen == 5

Bytes == {0, PAD_BYTE}

ByteStrings == UNION {[1..n -> Bytes] : n \in 0..MaxDataLen}

IsTape(e) == e[1] \in {"absorb", "perm"}

Poseidon2Init ==
    /\ pc = "run"
    /\ inp \in [lanes : {1, NumLanes}]
    /\ store = [ctx |-> poseidon2_new(inp.lanes), op |-> "none", ops |-> 0,
                hist |-> <<>>, tape |-> <<>>, data |-> <<>>, fed |-> <<>>, bytes |-> 0,
                out |-> LaneConst(inp.lanes, 0)]

\* The position after an operation that left the context c.
AfterOp(c) == IF c.panicked THEN "panicked" ELSE "run"

DigestNew ==
    /\ pc = "run"
    /\ store.ops < MaxDigestOps
    /\ store' = [store EXCEPT !.ctx = poseidon2_new(inp.lanes), !.op = "new",
                              !.ops = @ + 1, !.hist = <<>>, !.tape = <<>>, !.fed = <<>>]
    /\ UNCHANGED <<pc, inp>>

DigestInit ==
    /\ pc = "run"
    /\ store.ops < MaxDigestOps
    /\ store' = [store EXCEPT !.ctx = digest_init(BeginOp(store.ctx)), !.op = "init",
                              !.ops = @ + 1, !.hist = <<>>, !.tape = <<>>, !.fed = <<>>]
    /\ UNCHANGED <<pc, inp>>

DigestUpdate ==
    /\ pc = "run"
    /\ store.ops < MaxDigestOps
    /\ \E c \in {digest_update(BeginOp(store.ctx), LaneConst(inp.lanes, 1))} :
          store' = [store EXCEPT !.ctx = c, !.op = "update", !.ops = @ + 1,
                                 !.hist = Append(@, "update"),
                                 !.tape = @ \o SelectSeq(c.trace, IsTape)]
    /\ UNCHANGED <<pc, inp>>

DigestUpdateBytes ==
    /\ pc = "run"
    /\ store.ops < MaxDigestOps
    /\ \E D \in ByteStrings :
         /\ store.bytes + Len(D) <= MaxDataLen
         /\ \E c \in {digest_update_bytes(BeginOp(store.ctx), D)} :
              /\ store' = [store EXCEPT !.ctx = c, !.op = "bytes", !.ops = @ + 1,
                                        !.hist = Append(@, "bytes"), !.data = D, !.fed = @ \o D,
                                        !.bytes = @ + Len(D),
                                        !.tape = @ \o SelectSeq(c.trace, IsTape)]
              /\ pc' = AfterOp(c)
    /\ UNCHANGED inp

DigestFinal ==
    /\ pc = "run"
    /\ store.ops < MaxDigestOps
    /\ \E r \in {digest_final(BeginOp(store.ctx))} :
         /\ store' = [store EXCEPT !.ctx = r.c, !.out = r.out, !.op = "final",
                                   !.ops = @ + 1, !.hist = Append(@, "final"),
                                   !.tape = @ \o SelectSeq(r.c.trace, IsTape)]
         /\ pc' = AfterOp(r.c)
    /\ UNCHANGED inp

Poseidon2Next ==
    DigestNew \/ DigestInit \/ DigestUpdate \/ DigestUpdateBytes \/ DigestFinal

SpecPoseidon2 == Poseidon2Init /\ [][Poseidon2Next]_vars

\* D followed by 0x80 and zero bytes up to the next multiple of the chunk length
Padded(D) ==
    LET n == (Len(D) \div CHUNK_BYTES + 1) * CHUNK_BYTES
    IN  [k \in 1..n |-> IF k <= Len(D) THEN D[k] ELSE IF k = Len(D) + 1 THEN 128 ELSE 0]

RECURSIVE Pow256(_)
Pow256(n) == IF n = 0 THEN 1 ELSE 256 * Pow256(n - 1)

RECURSIVE WeightedSum(_, _)
WeightedSum(s, k) ==
    IF k > Len(s) THEN 0 ELSE s[k] * Pow256(Len(s) - k) + WeightedSum(s, k + 1)

\* The big-endian integer of chunk number j (from 1) of the byte string s
ChunkInteger(s, j) == WeightedSum(SubSeq(s, (j - 1) * CHUNK_BYTES + 1, j * CHUNK_BYTES), 1)

BytesThenFinal == store.op = "final" /\ store.hist = <<"bytes", "final">>

\* C13: on a fresh context, digest_update_bytes(D) then digest_final absorbs
\* the big-endian integers of the chunks of D followed by 0x80 and zeros up
\* to the next multiple of the chunk length, each addition followed at once by
\* one permutation, floor(|D| / chunk) + 1 permutations in all, and returns
\* slot 0 as the last permutation left it.
C13_BytesThenFinal ==
    BytesThenFinal =>
        LET n == Len(store.data) \div CHUNK_BYTES + 1
        IN  /\ pc = "run"
            /\ store.tape = [k \in 1..(2 * n) |->
                               IF k % 2 = 1
                               THEN <<"absorb", ChunkInteger(Padded(store.data), (k + 1) \div 2)>>
                               ELSE <<"perm">>]
            /\ PermCount(store.tape) = n
            /\ store.out = store.ctx.state[0]
            /\ store.ctx.trace[Len(store.ctx.trace)][1] = "mix"

C13_Witness ==
    /\ BytesThenFinal
    /\ store.ctx.lanes = NumLanes
    /\ store.data = <<0, PAD_BYTE, PAD_BYTE, 0, PAD_BYTE>>
    /\ Len(store.tape) = 6
    /\ store.tape[5] = <<"absorb", 128 * 256 + 128>>

\* The absorptions and permutations of one digest_update_bytes(D) followed
\* by digest_final on a fresh context.
TapeOf(D) ==
    [k \in 1..(2 * (Len(D) \div CHUNK_BYTES + 1)) |->
        IF k % 2 = 1 THEN <<"absorb", ChunkInteger(Padded(D), (k + 1) \div 2)>>
        ELSE <<"perm">>]

\* digest_update_bytes calls alone, then digest_final, on a fresh context.
BytesOnlyThenFinal ==
    /\ store.op = "final"
    /\ \A k \in 1..(Len(store.hist) - 1) : store.hist[k] = "bytes"

\* C24: however the bytes are split into successive digest_update_bytes
\* calls on a fresh context, the chunks absorbed up to digest_final are
\* those of a single call with the concatenation.
C24_SplitInvariant ==
    BytesOnlyThenFinal => pc = "run" /\ store.tape = TapeOf(store.fed)

\* C25: after every operation buffer_len is below the length of the buffer.
C25_BufferLenInRange == store.ctx.buffer_len <= CHUNK_BYTES - 1

(***************************************************************************)
(* The steps of a traced Family B permutation.                             *)
(***************************************************************************)
PermStarts(tr) == {i \in DOMAIN tr : tr[i] = <<"perm">>}

\* The steps of the permutation that starts at position p.
PermSteps(tr, p) ==
    LET later == {j \in DOMAIN tr : j > p /\ IsTape(tr[j])}
        end == IF later = {} THEN Len(tr)
               ELSE (CHOOSE j \in later : \A k \in later : j <= k) - 1
    IN  SubSeq(tr, p + 1, end)

\* A mix step of the given kind whose result is (2 s0 + s1, s0 + k s1).
MixIs(e, kind, k) ==
    /\ e[1] = "mix" /\ e[2] = kind
    /\ \A l \in DOMAIN e[3][0] :
          /\ e[4][0][l] = (2 * e[3][0][l] + e[3][1][l]) % FIELD_P
          /\ e[4][1][l] = (e[3][0][l] + k * e[3][1][l]) % FIELD_P

IsArcOn(e, slot) == e[1] = "arc" /\ e[2] = slot

\* A round of the given kind in the steps sq, with its marker at position i.
RoundIs(sq, i) ==
    LET r == RoundSteps(sq, i)
    IN  IF sq[i][2]
        THEN /\ Len(r) = 5
             /\ IsArcOn(r[1], 0) /\ IsArcOn(r[2], 1)
             /\ r[3] = <<"sbox", 0>> /\ r[4] = <<"sbox", 1>>
             /\ MixIs(r[5], "external", 2)
        ELSE /\ Len(r) = 3
             /\ IsArcOn(r[1], 0)
             /\ r[2] = <<"sbox", 0>>
             /\ MixIs(r[3], "internal", 3)

\* The steps sq are 4 full, POSEIDON2_BN254_RP partial and 4 full rounds.
RoundsAre(sq) ==
    /\ sq # <<>> => IsRound(sq[1])
    /\ [k \in 1..Cardinality(RoundStarts(sq)) |-> SelectSeq(sq, IsRound)[k][2]]
         = RoundFlags(56)
    /\ \A i \in RoundStarts(sq) : RoundIs(sq, i)

Permuted2 == PermStarts(store.ctx.trace) # {}

\* C18 as stated: a permutation is the 4 + 56 + 4 rounds and nothing else.
C18_AsStated ==
    \A p \in PermStarts(store.ctx.trace) :
        LET sq == PermSteps(store.ctx.trace, p)
        IN  sq # <<>> /\ RoundsAre(sq)

\* C18: a permutation first mixes the state with the external matrix,
\* (s0,s1) -> (2 s0 + s1, s0 + 2 s1), and then runs exactly 4 full rounds
\* (constants to both slots, 5th power of both, external mix), 56 partial
\* rounds (a constant to slot 0, 5th power of slot 0, internal mix
\* (s0,s1) -> (2 s0 + s1, s0 + 3 s1)) and 4 more full rounds.
C18_MixThenRounds ==
    \A p \in PermStarts(store.ctx.trace) :
        LET sq == PermSteps(store.ctx.trace, p)
        IN  /\ sq # <<>>
            /\ MixIs(sq[1], "external", 2)
            /\ RoundsAre(Tail(sq))

C18_Witness ==
    /\ Permuted2
    /\ store.op = "bytes" /\ store.ctx.lanes = NumLanes
    /\ Cardinality(PermStarts(store.ctx.trace)) = 2
    /\ \A p \in PermStarts(store.ctx.trace) :
          Len(PermSteps(store.ctx.trace, p)) = 1 + 8 * 6 + 56 * 4

(***************************************************************************)
(* Uint256: UINT256_NLIMBS limbs of LIMB_BITS bits, limb 0 the lowest.     *)
(* The limbs of the Uint256 named u are the Bn254Fr objects u[0], u[1], .. *)
(* The limb count and width are scaled so that, as in the source, no       *)
(* limb sum or product coefficient reaches the modulus.                    *)
(***************************************************************************)
UINT256_NLIMBS == 3

LIMB_BITS == 1

LimbBase == 2 ^ LIMB_BITS

UintBound == 2 ^ (LIMB_BITS * UINT256_NLIMBS)

\* Limb i of the integer v
LimbOf(v, i) == (v \div (LimbBase ^ i)) % LimbBase

LimbsOf(v) == [i \in 0..(UINT256_NLIMBS - 1) |-> LimbOf(v, i)]

\* The integer held by the first n limbs of u
RECURSIVE LimbSum(_, _, _)
LimbSum(S, u, n) ==
    IF n = 0 THEN 0
    ELSE LimbSum(S, u, n - 1) + V(S, ElemName(u, n - 1)) * (LimbBase ^ (n - 1))

UintValue(S, u) == LimbSum(S, u, UINT256_NLIMBS)

\* impl Default for Uint256: limbs 0 .. n-1 by Bn254Fr::new()
RECURSIVE uint256_default(_, _, _)
uint256_default(S0, u, n) ==
    IF n = 0 THEN S0
    ELSE Only({ new(S, ElemName(u, n - 1)) : S \in {uint256_default(S0, u, n - 1)} })

\* Uint256::new
uint256_new(S0, u) == uint256_default(S0, u, UINT256_NLIMBS)

\* Drop of a Uint256: its limbs in index order
uint256_drop(S0, u) == drop_vec(S0, u, 0, UINT256_NLIMBS)

\* A host routine of the uint256 module stores w[i] through the handle of
\* limb i of u, for the n first limbs (get_uint256_handle, the call,
\* set_uint256_handle).
RECURSIVE HostStore(_, _, _, _)
HostStore(S0, u, w, n) ==
    IF n = 0 THEN S0
    ELSE Only({ Write(S, H(S, ElemName(u, n - 1)), w[n - 1] % FIELD_P)
                : S \in {HostStore(S0, u, w, n - 1)} })

\* Uint256::from_str
uint256_from_str(S0, u, v) ==
    Only({Only({
        HostStore(Log(S2, <<"uint256_set_str", u>>), u, LimbsOf(v), UINT256_NLIMBS)
        : S2 \in {S1}})
        : S1 \in {uint256_new(S0, u)}})

\* Uint256::set_u64: limb 0 by set_u64(val), the others by set_u64(0)
RECURSIVE uint256_set_u64(_, _, _, _)
uint256_set_u64(S0, u, val, n) ==
    IF n = 0 THEN S0
    ELSE Only({ set_u32(S, ElemName(u, n - 1), IF n = 1 THEN val ELSE 0)
                : S \in {uint256_set_u64(S0, u, val, n - 1)} })

\* Uint256::from_u64
uint256_from_u64(S0, u, val) ==
    Only({ uint256_set_u64(S, u, val, UINT256_NLIMBS) : S \in {uint256_new(S0, u)} })

\* to = from: the old value of to is dropped, from is moved
Assign(S0, from, to) == Only({ Move(S, from, to) : S \in {drop(S0, to)} })

\* uint256::mux, limbs 0 .. n-1 of the loop
RECURSIVE uint256_mux_loop(_, _, _, _, _, _)
uint256_mux_loop(S0, result, cond, a, b, n) ==
    IF n = 0 THEN S0
    ELSE Only({ mux(S, ElemName(result, n - 1), cond, ElemName(a, n - 1), ElemName(b, n - 1))
                : S \in {uint256_mux_loop(S0, result, cond, a, b, n - 1)} })

\* uint256::mux(cond, a, b); result names the returned Uint256
uint256_mux(S0, cond, a, b, result) ==
    Only({ uint256_mux_loop(S, result, cond, a, b, UINT256_NLIMBS)
           : S \in {uint256_new(S0, result)} })

\* A limb addition that leaves the carry-in out.
add_limb_without_carry_in(S0, a, b, carry_in, result, carry_out) ==
    Only({Only({Only({Only({Only({Only({
        drop(S6, "alc.sum")
        : S6 \in {drop_vec(S5, "alc.bits", 0, LIMB_BITS + 1)}})
        : S5 \in {from_bits_checked(S4, "alc.bits", LIMB_BITS, result)}})
        : S4 \in {clone(S3, ElemName("alc.bits", LIMB_BITS), carry_out)}})
        : S3 \in {to_bits(S2, "alc.sum", LIMB_BITS + 1, "alc.bits")}})
        : S2 \in {addmod_checked(S1, "alc.sum", a, b)}})
        : S1 \in {new(S0, "alc.sum")}})

\* add_limb_with_carry; result and carry_out name the returned pair
add_limb_with_carry(S0, a, b, carry_in, result, carry_out) ==
    Only({Only({Only({Only({Only({Only({Only({
        drop(S7, "alc.sum")
        : S7 \in {drop_vec(S6, "alc.bits", 0, LIMB_BITS + 1)}})
        : S6 \in {from_bits_checked(S5, "alc.bits", LIMB_BITS, result)}})
        : S5 \in {clone(S4, ElemName("alc.bits", LIMB_BITS), carry_out)}})
        : S4 \in {to_bits(S3, "alc.sum", LIMB_BITS + 1, "alc.bits")}})
        : S3 \in {binary_constrained(S2, "add", "alc.sum", carry_in)}})
        : S2 \in {addmod_checked(S1, "alc.sum", a, b)}})
        : S1 \in {new(S0, "alc.sum")}})

\* sub_limb_with_borrow without the offset 2^64: sum = a - b - borrow_in
sub_limb_without_offset(S0, a, b, borrow_in, result, borrow_out) ==
    Only({Only({Only({Only({Only({Only({Only({Only({Only({Only({Only({Only({Only({
        drop(S13, "slb.two_pow_64")
        : S13 \in {drop(S12, "slb.sum")}})
        : S12 \in {drop_vec(S11, "slb.bits", 0, LIMB_BITS + 1)}})
        : S11 \in {drop(S10, "slb.one")}})
        : S10 \in {from_bits_checked(S9, "slb.bits", LIMB_BITS, result)}})
        : S9 \in {submod_checked(S8, borrow_out, "slb.one", ElemName("slb.bits", LIMB_BITS))}})
        : S8 \in {new(S7, borrow_out)}})
        : S7 \in {from_u32(S6, "slb.one", 1)}})
        : S6 \in {to_bits(S5, "slb.sum", LIMB_BITS + 1, "slb.bits")}})
        : S5 \in {binary_constrained(S4, "sub", "slb.sum", borrow_in)}})
        : S4 \in {binary_constrained(S3, "sub", "slb.sum", b)}})
        : S3 \in {addmod_checked(S2, "slb.sum", "slb.two_pow_64", a)}})
        : S2 \in {new(S1, "slb.sum")}})
        : S1 \in {from_str(S0, "slb.two_pow_64", 0)}})

\* sub_limb_with_borrow; result and borrow_out name the returned pair
sub_limb_with_borrow(S0, a, b, borrow_in, result, borrow_out) ==
    Only({Only({Only({Only({Only({Only({Only({Only({Only({Only({Only({Only({Only({
        drop(S13, "slb.two_pow_64")
        : S13 \in {drop(S12, "slb.sum")}})
        : S12 \in {drop_vec(S11, "slb.bits", 0, LIMB_BITS + 1)}})
        : S11 \in {drop(S10, "slb.one")}})
        : S10 \in {from_bits_checked(S9, "slb.bits", LIMB_BITS, result)}})
        : S9 \in {submod_checked(S8, borrow_out, "slb.one", ElemName("slb.bits", LIMB_BITS))}})
        : S8 \in {new(S7, borrow_out)}})
        : S7 \in {from_u32(S6, "slb.one", 1)}})
        : S6 \in {to_bits(S5, "slb.sum", LIMB_BITS + 1, "slb.bits")}})
        : S5 \in {binary_constrained(S4, "sub", "slb.sum", borrow_in)}})
        : S4 \in {binary_constrained(S3, "sub", "slb.sum", b)}})
        : S3 \in {addmod_checked(S2, "slb.sum", "slb.two_pow_64", a)}})
        : S2 \in {new(S1, "slb.sum")}})
        : S1 \in {from_str(S0, "slb.two_pow_64", LimbBase)}})

\* The loop of add_cc, limbs 0 .. n-1
RECURSIVE add_cc_loop(_, _, _, _, _, _)
add_cc_loop(S0, a, b, result, carry, n) ==
    IF n = 0 THEN S0
    ELSE Only({Only({Only({
             Assign(S3, "cc.limb_carry", carry)
             : S3 \in {Assign(S2, "cc.limb_result", ElemName(result, n - 1))}})
             : S2 \in {add_limb_with_carry(S1, ElemName(a, n - 1), ElemName(b, n - 1),
                                            carry, "cc.limb_result", "cc.limb_carry")}})
             : S1 \in {add_cc_loop(S0, a, b, result, carry, n - 1)}})

\* add_cc(a, b); val and carry name the fields of the returned Uint256Cc
add_cc(S0, a, b, val, carry) ==
    Only({Only({
        add_cc_loop(S2, a, b, val, carry, UINT256_NLIMBS)
        : S2 \in {from_u32(S1, carry, 0)}})
        : S1 \in {uint256_new(S0, val)}})

\* The loop of sub_cc, limbs 0 .. n-1
RECURSIVE sub_cc_loop(_, _, _, _, _, _)
sub_cc_loop(S0, a, b, result, borrow, n) ==
    IF n = 0 THEN S0
    ELSE Only({Only({Only({
             Assign(S3, "cc.limb_borrow", borrow)
             : S3 \in {Assign(S2, "cc.limb_result", ElemName(result, n - 1))}})
             : S2 \in {sub_limb_with_borrow(S1, ElemName(a, n - 1), ElemName(b, n - 1),
                                             borrow, "cc.limb_result", "cc.limb_borrow")}})
             : S1 \in {sub_cc_loop(S0, a, b, result, borrow, n - 1)}})

\* sub_cc(a, b); val and carry name the fields of the returned Uint256Cc
sub_cc(S0, a, b, val, carry) ==
    Only({Only({
        sub_cc_loop(S2, a, b, val, carry, UINT256_NLIMBS)
        : S2 \in {from_u32(S1, carry, 0)}})
        : S1 \in {uint256_new(S0, val)}})

\* The width of u64, scaled with the field: 2^U64_BITS is below FIELD_P and
\* FIELD_P - 1 has a nonzero bit below it, as for BN254 and 64.
U64_BITS == 3

\* Bn254Fr::get_u64: the low bits of the value ("may truncate for large
\* values")
get_u64(S, x) == V(S, x) % (2 ^ U64_BITS)

\* bn254fr::eqz_checked: out = 1 if x = 0, 0 otherwise
eqz_checked(S0, out, x) ==
    Only({Only({Only({Only({Only({Only({Only({Only({Only({Only({Only({Only({
        drop(drop(drop(drop(drop(drop(S12, "eqz.check"), "eqz.mul_res"), "eqz.neg_x"),
                            "eqz.inv"), "eqz.zero"), "eqz.one")
        : S12 \in {assert_equal(S11, "eqz.check", "eqz.zero")}})
        : S11 \in {mulmod_checked(S10, "eqz.check", x, out)}})
        : S10 \in {new(S9, "eqz.check")}})
        : S9 \in {addmod_checked(S8, out, "eqz.mul_res", "eqz.one")}})
        : S8 \in {mulmod_checked(S7, "eqz.mul_res", "eqz.neg_x", "eqz.inv")}})
        : S7 \in {new(S6, "eqz.mul_res")}})
        : S6 \in {negmod_checked(S5, "eqz.neg_x", x)}})
        : S5 \in {new(S4, "eqz.neg_x")}})
        : S4 \in {IF get_u64(S3, x) # 0 THEN bn254fr_unary(S3, "invmod", "eqz.inv", x) ELSE S3}})
        : S3 \in {new(S2, "eqz.inv")}})
        : S2 \in {from_u32(S1, "eqz.zero", 0)}})
        : S1 \in {from_u32(S0, "eqz.one", 1)}})

\* bn254fr::eq_checked: out = 1 if a = b, 0 otherwise
eq_checked(S0, out, a, b) ==
    Only({Only({Only({
        drop(S3, "eq.sub_res")
        : S3 \in {eqz_checked(S2, out, "eq.sub_res")}})
        : S2 \in {submod_checked(S1, "eq.sub_res", a, b)}})
        : S1 \in {new(S0, "eq.sub_res")}})

\* uint256::eq, the comparisons of limbs 0 .. n-1 into eq0, eq1, ..
RECURSIVE uint256_eq_limbs(_, _, _, _)
uint256_eq_limbs(S0, x, y, n) ==
    IF n = 0 THEN S0
    ELSE Only({Only({
             eq_checked(S2, ElemName("ueq.eq", n - 1), ElemName(x, n - 1), ElemName(y, n - 1))
             : S2 \in {uint256_eq_limbs(S1, x, y, n - 1)}})
             : S1 \in {new(S0, ElemName("ueq.eq", n - 1))}})

\* uint256::eq, eq0.mulmod_checked(eq_k) for k = 1 .. n-1
RECURSIVE uint256_eq_and(_, _)
uint256_eq_and(S0, n) ==
    IF n <= 1 THEN S0
    ELSE Only({ binary_constrained(S, "mul", ElemName("ueq.eq", 0), ElemName("ueq.eq", n - 1))
                : S \in {uint256_eq_and(S0, n - 1)} })

\* uint256::eq(x, y); out names the returned element
uint256_eq(S0, x, y, out) ==
    Only({Only({Only({
        drop_vec(S3, "ueq.eq", 1, UINT256_NLIMBS)
        : S3 \in {Move(S2, ElemName("ueq.eq", 0), out)}})
        : S2 \in {uint256_eq_and(S1, UINT256_NLIMBS)}})
        : S1 \in {uint256_eq_limbs(S0, x, y, UINT256_NLIMBS)}})

\* Elements pre[lo] .. pre[hi-1] by Bn254Fr::new()
RECURSIVE NewVec(_, _, _, _)
NewVec(S0, pre, lo, hi) ==
    IF lo >= hi THEN S0
    ELSE Only({ NewVec(S, pre, lo + 1, hi) : S \in {new(S0, ElemName(pre, lo))} })

\* Clones of the limbs of u as pre[0] .. pre[n-1]
RECURSIVE CloneLimbs(_, _, _, _)
CloneLimbs(S0, u, pre, n) ==
    IF n = 0 THEN S0
    ELSE Only({ clone(S, ElemName(u, n - 1), ElemName(pre, n - 1))
                : S \in {CloneLimbs(S0, u, pre, n - 1)} })

\* Coefficient k of the product without carries: sum of a[i] * b[k - i]
RECURSIVE Coefficient(_, _, _, _, _)
Coefficient(S, a, b, k, i) ==
    IF i < 0 THEN 0
    ELSE (Coefficient(S, a, b, k, i - 1)
            + (IF i < UINT256_NLIMBS /\ k - i >= 0 /\ k - i < UINT256_NLIMBS
               THEN V(S, ElemName(a, i)) * V(S, ElemName(b, k - i)) ELSE 0)) % FIELD_P

\* _bn254fr_bigint_mul_checked_no_carry: out[k] receives coefficient k and is
\* bound to the limbs
bigint_mul_checked_no_carry(S0, out, a, b) ==
    Only({
        HostStore(Log(S, <<"bigint_mul_checked_no_carry", out>>), out,
                  [k \in 0..(2 * UINT256_NLIMBS - 2) |-> Coefficient(S, a, b, k, k)],
                  2 * UINT256_NLIMBS - 1)
        : S \in {S0}})

\* The carry into limb k of the proper representation of inp
RECURSIVE CarryInto(_, _, _)
CarryInto(S, inp_, k) ==
    IF k = 0 THEN 0
    ELSE (V(S, ElemName(inp_, k - 1)) + CarryInto(S, inp_, k - 1)) \div LimbBase

\* _bn254fr_bigint_convert_to_proper_representation: limbs of the given
\* width with the carries propagated, the last limb being the last carry
bigint_convert_to_proper_representation(S0, out, inp_, count) ==
    Only({
        HostStore(Log(S, <<"bigint_convert_to_proper_representation", out, LIMB_BITS>>), out,
                  [k \in 0..count |->
                      IF k = count THEN CarryInto(S, inp_, k)
                      ELSE (V(S, ElemName(inp_, k)) + CarryInto(S, inp_, k)) % LimbBase],
                  count + 1)
        : S \in {S0}})

\* The last loop of mul_wide: lo.limbs[i] = out_limbs[i].clone() and
\* hi.limbs[i] = out_limbs[NLIMBS + i].clone(), for limbs 0 .. n-1
RECURSIVE mul_wide_build(_, _, _, _)
mul_wide_build(S0, lo, hi, n) ==
    IF n = 0 THEN S0
    ELSE Only({Only({Only({Only({
             Assign(S4, "mw.clone", ElemName(hi, n - 1))
             : S4 \in {clone(S3, ElemName("mw.out_limbs", UINT256_NLIMBS + n - 1), "mw.clone")}})
             : S3 \in {Assign(S2, "mw.clone", ElemName(lo, n - 1))}})
             : S2 \in {clone(S1, ElemName("mw.out_limbs", n - 1), "mw.clone")}})
             : S1 \in {mul_wide_build(S0, lo, hi, n - 1)}})

\* mul_wide(a, b); lo and hi name the fields of the returned Uint256Wide
mul_wide(S0, a, b, lo, hi) ==
    Only({Only({Only({Only({Only({Only({Only({Only({Only({Only({Only({Only({Only({
        drop_vec(S13, "mw.a_limbs", 0, UINT256_NLIMBS)
        : S13 \in {drop_vec(S12, "mw.b_limbs", 0, UINT256_NLIMBS)}})
        : S12 \in {drop_vec(S11, "mw.mul_no_carry", 0, 2 * UINT256_NLIMBS - 1)}})
        : S11 \in {drop_vec(S10, "mw.out_limbs", 0, 2 * UINT256_NLIMBS)}})
        : S10 \in {mul_wide_build(S9, lo, hi, UINT256_NLIMBS)}})
        : S9 \in {uint256_new(S8, hi)}})
        : S8 \in {uint256_new(S7, lo)}})
        : S7 \in {bigint_convert_to_proper_representation(S6, "mw.out_limbs",
                      "mw.mul_no_carry", 2 * UINT256_NLIMBS - 1)}})
        : S6 \in {NewVec(S5, "mw.out_limbs", 0, 2 * UINT256_NLIMBS)}})
        : S5 \in {bigint_mul_checked_no_carry(S4, "mw.mul_no_carry", "mw.a_limbs", "mw.b_limbs")}})
        : S4 \in {NewVec(S3, "mw.mul_no_carry", 0, 2 * UINT256_NLIMBS - 1)}})
        : S3 \in {CloneLimbs(S2, b, "mw.b_limbs", UINT256_NLIMBS)}})
        : S2 \in {CloneLimbs(S1, a, "mw.a_limbs", UINT256_NLIMBS)}})
        : S1 \in {S0}})

\* The range checks of uint512_mod: let _ = r.limbs[i].to_bits(LIMB_BITS)
RECURSIVE range_check_limbs(_, _, _)
range_check_limbs(S0, r, n) ==
    IF n = 0 THEN S0
    ELSE Only({Only({
             drop_vec(S2, "um.bits", 0, LIMB_BITS)
             : S2 \in {to_bits(S1, ElemName(r, n - 1), LIMB_BITS, "um.bits")}})
             : S1 \in {range_check_limbs(S0, r, n - 1)}})

\* uint512_mod(wide, m); r names the returned Uint256.  host.q_low,
\* host.q_high and host.r are what _uint512_idiv_normalized stores.
uint512_mod(S0, lo, hi, m, r, host) ==
    Only({Only({Only({Only({Only({Only({Only({Only({Only({Only({
        uint256_drop(drop(S10, "um.q_high"), "um.q_low")
        : S10 \in {uint256_drop(uint256_drop(S9, "um.qm.lo"), "um.qm.hi")}})
        : S9 \in {range_check_limbs(S8, r, UINT256_NLIMBS)}})
        : S8 \in {mul_wide(S7, "um.q_low", m, "um.qm.lo", "um.qm.hi")}})
        : S7 \in {HostStore(S6, r, host.r, UINT256_NLIMBS)}})
        : S6 \in {Write(S5, H(S5, "um.q_high"), host.q_high % FIELD_P)}})
        : S5 \in {HostStore(S4, "um.q_low", host.q_low, UINT256_NLIMBS)}})
        : S4 \in {Log(S3, <<"uint512_idiv_normalized", lo, hi, m>>)}})
        : S3 \in {uint256_new(S2, r)}})
        : S2 \in {new(S1, "um.q_high")}})
        : S1 \in {uint256_new(S0, "um.q_low")}})

\* uint256::invmod(a, m); result names the returned Uint256.  host.inv is
\* what _uint256_invmod stores.
invmod(S0, a, m, result, host) ==
    Only({Only({Only({Only({Only({Only({Only({Only({Only({Only({
        uint256_drop(uint256_drop(S10, "im.product.lo"), "im.product.hi")
        : S10 \in {uint256_drop(uint256_drop(drop(drop(S9, "im.one_fr"), "im.eq_result"),
                                             "im.remainder"), "im.one")}})
        : S9 \in {assert_equal(S8, "im.eq_result", "im.one_fr")}})
        : S8 \in {from_u32(S7, "im.one_fr", 1)}})
        : S7 \in {uint256_eq(S6, "im.remainder", "im.one", "im.eq_result")}})
        : S6 \in {uint512_mod(S5, "im.product.lo", "im.product.hi", m, "im.remainder", host)}})
        : S5 \in {uint256_from_u64(S4, "im.one", 1)}})
        : S4 \in {mul_wide(S3, result, a, "im.product.lo", "im.product.hi")}})
        : S3 \in {HostStore(S2, result, host.inv, UINT256_NLIMBS)}})
        : S2 \in {Log(S1, <<"uint256_invmod", a, m>>)}})
        : S1 \in {uint256_new(S0, result)}})

(***************************************************************************)
(* SpecUint: a caller holds the Uint256 values a and b and replaces a by   *)
(* the result of add_cc, sub_cc, mux or invmod with b as second operand.   *)
(* inp records the integers the caller chose, the operations performed,    *)
(* the value of a before the last one and the carries returned.            *)
(***************************************************************************)
MaxUintOps == 2

UintValues == 0..(UintBound - 1)

UintInit ==
    /\ store = EmptyStore
    /\ pc = "init"
    /\ inp \in [a : UintValues, b : UintValues, hist : {<<>>}, before : {0},
                carries : {<<>>}, cond : {0}]

\* The caller constructs a and b.
UintCreate ==
    /\ pc = "init"
    /\ store' = Begin(uint256_from_str(uint256_from_str(store, "a", inp.a), "b", inp.b))
    /\ pc' = "run"
    /\ inp' = [inp EXCEPT !.before = inp.a]

UintCanStep == pc = "run" /\ Len(inp.hist) < MaxUintOps /\ ~store.failed

\* to = from for Uint256 values, limbs 0 .. n-1
RECURSIVE uint256_assign(_, _, _, _)
uint256_assign(S0, from, to, n) ==
    IF n = 0 THEN S0
    ELSE Only({ Assign(S, ElemName(from, n - 1), ElemName(to, n - 1))
                : S \in {uint256_assign(S0, from, to, n - 1)} })

\* The carry of the previous result goes out of scope.
DropCarry(S) == IF "cc.carry" \in DOMAIN S.el THEN drop(S, "cc.carry") ELSE S

UintDid(op, carry, cond) ==
    /\ inp' = [inp EXCEPT !.hist = Append(@, op), !.before = UintValue(store, "a"),
                          !.carries = Append(@, carry), !.cond = cond]
    /\ pc' = pc

\* let cc = add_cc(&a, &b); a = cc.val
UintAddCc ==
    /\ UintCanStep
    /\ \E S \in {add_cc(DropCarry(Begin(store)), "a", "b", "cc.val", "cc.carry")} :
         /\ store' = uint256_assign(S, "cc.val", "a", UINT256_NLIMBS)
         /\ UintDid("add", V(S, "cc.carry"), 0)

\* let cc = sub_cc(&a, &b); a = cc.val
UintSubCc ==
    /\ UintCanStep
    /\ \E S \in {sub_cc(DropCarry(Begin(store)), "a", "b", "cc.val", "cc.carry")} :
         /\ store' = uint256_assign(S, "cc.val", "a", UINT256_NLIMBS)
         /\ UintDid("sub", V(S, "cc.carry"), 0)

\* let cond = Bn254Fr::from_u32(c); a = mux(&cond, &a, &b)
UintMux ==
    /\ UintCanStep
    /\ \E c \in {0, 1} :
         \E S \in {uint256_mux(from_u32(DropCarry(Begin(store)), "cond", c),
                               "cond", "a", "b", "mux.result")} :
            /\ store' = drop(uint256_assign(S, "mux.result", "a", UINT256_NLIMBS), "cond")
            /\ UintDid("mux", 0, c)

\* The integers x with x * a = 1 modulo m
Inverses(a, m) == {x \in UintValues : m # 0 /\ (x * a) % m = 1 % m}

\* What the two host routines may store: the inverse or another value, and
\* the remainder of the product, another value or a limb out of range; the
\* quotient is not read.
HostAnswers(a, m) ==
    [inv : {LimbsOf(x) : x \in Inverses(a, m) \cup {0, 1}},
     q_low : {LimbsOf(0)}, q_high : {0},
     r : {LimbsOf(x) : x \in {0, 1, 2}}
           \cup {[i \in 0..(UINT256_NLIMBS - 1) |-> IF i = 0 THEN LimbBase ELSE 0]}]

\* a = invmod(&a, &b)
UintInvmod ==
    /\ UintCanStep
    /\ \E host \in HostAnswers(inp.before, inp.b) :
         \E S \in {invmod(DropCarry(Begin(store)), "a", "b", "im.result", host)} :
            /\ store' = uint256_assign(S, "im.result", "a", UINT256_NLIMBS)
            /\ UintDid("invmod", 0, 0)

UintNext == UintCreate \/ UintAddCc \/ UintSubCc \/ UintMux \/ UintInvmod

SpecUint == UintInit /\ [][UintNext]_vars

LastOp == IF inp.hist = <<>> THEN "none" ELSE inp.hist[Len(inp.hist)]

\* C14 as stated: an invmod(a, m) with m > 1 that completes without a failed
\* assertion returned r with r * a = 1 modulo m, whatever the host stored.
C14_CompletesOnlyWithInverse ==
    LastOp = "invmod" /\ ~store.failed /\ inp.b > 1 =>
        (UintValue(store, "a") * inp.before) % inp.b = 1

\* C15 as stated: sub_cc(add_cc(a, b).val, b) has the value a and the
\* borrow 0.
C15_AsStated ==
    inp.hist = <<"add", "sub">> =>
        /\ ~store.failed
        /\ UintValue(store, "a") = inp.a
        /\ inp.carries[2] = 0

\* C15: add_cc(a, b) returns val and carry with val + carry * 2^256 = a + b,
\* carry in {0, 1} and every limb of val below 2^64; sub_cc(val, b) then has
\* the value a, and its borrow is the carry of the addition: 0 exactly when
\* a + b < 2^256.
C15_RoundTrip ==
    /\ inp.hist # <<>> /\ inp.hist[1] = "add" /\ Len(inp.hist) = 1 =>
          /\ ~store.failed
          /\ UintValue(store, "a") + inp.carries[1] * UintBound = inp.a + inp.b
          /\ inp.carries[1] \in {0, 1}
          /\ \A i \in 0..(UINT256_NLIMBS - 1) : V(store, ElemName("a", i)) < LimbBase
    /\ inp.hist = <<"add", "sub">> =>
          /\ ~store.failed
          /\ UintValue(store, "a") = inp.a
          /\ inp.carries[2] = inp.carries[1]
          /\ inp.carries[2] = 0 <=> inp.a + inp.b < UintBound

C15_Witness ==
    /\ inp.hist = <<"add", "sub">>
    /\ inp.a = UintBound - 1 /\ inp.b = 3
    /\ inp.before = 2
    /\ UintValue(store, "a") = UintBound - 1
    /\ inp.carries = <<1, 1>>

\* C16 as stated: mux(cond, a, b) returns a if cond = 1 and b if cond = 0,
\* limb by limb.
C16_MuxReturnsFirstWhenOne ==
    LastOp = "mux" /\ ~store.failed =>
        \A i \in 0..(UINT256_NLIMBS - 1) :
            V(store, ElemName("a", i))
              = IF inp.cond = 1 THEN LimbOf(inp.before, i) ELSE LimbOf(inp.b, i)

(***************************************************************************)
(* Comparisons and limb subtraction on field elements: the caller builds   *)
(* a, b and borrow_in and applies one operation.  inp.op names it.         *)
(***************************************************************************)
LimbInit ==
    /\ store = EmptyStore
    /\ pc = "init"
    /\ inp \in [a : Fp, b : Fp, borrow_in : {0, 1}, op : {"none"}]

\* let a = from_u32(..); let b = from_u32(..); let borrow_in = from_u32(..)
LimbCreate ==
    /\ pc = "init"
    /\ store' = Begin(from_u32(from_u32(from_u32(store, "a", inp.a), "b", inp.b),
                               "borrow_in", inp.borrow_in))
    /\ pc' = "run"
    /\ inp' = inp

LimbDid(op) == pc' = "done" /\ inp' = [inp EXCEPT !.op = op]

\* let mut out = Bn254Fr::new(); eqz_checked(&mut out, &a)
LimbEqz ==
    /\ pc = "run"
    /\ store' = eqz_checked(new(Begin(store), "out"), "out", "a")
    /\ LimbDid("eqz")

\* let mut out = Bn254Fr::new(); eq_checked(&mut out, &a, &b)
LimbEq ==
    /\ pc = "run"
    /\ store' = eq_checked(new(Begin(store), "out"), "out", "a", "b")
    /\ LimbDid("eq")

\* let (diff, borrow_out) = sub_limb_with_borrow(&a, &b, &borrow_in), for
\* limbs a and b
LimbSub ==
    /\ pc = "run"
    /\ inp.a < LimbBase /\ inp.b < LimbBase
    /\ store' = sub_limb_with_borrow(Begin(store), "a", "b", "borrow_in",
                                     "diff", "borrow_out")
    /\ LimbDid("sub")

LimbNext == LimbCreate \/ LimbEqz \/ LimbEq \/ LimbSub

SpecLimb == LimbInit /\ [][LimbNext]_vars

\* C26 as stated: eqz_checked(out, x) completes without a failed assertion
\* with out = 1 if x = 0 and out = 0 otherwise, for every field element x;
\* eq_checked(out, a, b) likewise with out = 1 exactly if a = b.
C26_EqzOnEveryElement ==
    /\ inp.op = "eqz" =>
          ~store.failed /\ V(store, "out") = (IF inp.a = 0 THEN 1 ELSE 0)
    /\ inp.op = "eq" =>
          ~store.failed /\ V(store, "out") = (IF inp.a = inp.b THEN 1 ELSE 0)

\* C27: for limbs a, b below 2^64 and borrow_in in {0, 1},
\* sub_limb_with_borrow completes without a failed assertion, the returned
\* difference is (a - b - borrow_in) mod 2^64, and the returned borrow is 1
\* exactly when a < b + borrow_in and 0 otherwise.
C27_SubLimbWithBorrow ==
    inp.op = "sub" =>
        /\ ~store.failed
        /\ V(store, "diff") = (inp.a - inp.b - inp.borrow_in) % LimbBase
        /\ V(store, "borrow_out") = (IF inp.a < inp.b + inp.borrow_in THEN 1 ELSE 0)

\* 0 - 1 - 1 borrows and leaves 0.
C27_Witness ==
    /\ inp.op = "sub"
    /\ inp.a = 0 /\ inp.b = 1 /\ inp.borrow_in = 1
    /\ V(store, "diff") = 0
    /\ V(store, "borrow_out") = 1
    /\ ~store.failed

(***************************************************************************)
(* The curve-form conversions and neq_vec.  The caller builds the point P, *)
(* the batch point VP with P in the first lane and P with its coordinates  *)
(* exchanged in the second, and the bit vectors vx and vy; pc names the    *)
(* last call made.                                                         *)
(***************************************************************************)
Exchanged(q) == <<q[2], q[1]>>

ConvInit ==
    /\ store = EmptyStore
    /\ pc = "init"
    /\ inp \in [p : Fp \X Fp, xb : {0, 1} \X {0, 1}, yb : {<<0, 1>>}]

ConvArgs ==
    /\ pc = "init"
    /\ store' = Begin(from_ui(from_ui(from_ui(from_ui(from_u32(from_u32(store,
                    X("P"), inp.p[1]), Y("P"), inp.p[2]),
                    X("VP"), <<inp.p[1], inp.p[2]>>),
                    Y("VP"), <<inp.p[2], inp.p[1]>>),
                    "vx", inp.xb), "vy", inp.yb))
    /\ pc' = "args"
    /\ UNCHANGED inp

\* let m = p.to_montgomery()
ConvToMontgomery ==
    /\ pc = "args"
    /\ store' = to_montgomery(Begin(store), "M", "P")
    /\ pc' = "mont"
    /\ UNCHANGED inp

\* let t = m.to_twisted_edward()
ConvToTwistedEdward ==
    /\ pc = "mont"
    /\ store' = to_twisted_edward(Begin(store), "T", "M")
    /\ pc' = "ted"
    /\ UNCHANGED inp

\* let d = p.to_twisted_edward(), the coordinates of p read as (u, v)
ConvFromMontgomery ==
    /\ pc = "ted"
    /\ store' = to_twisted_edward(Begin(store), "D", "P")
    /\ pc' = "direct"
    /\ UNCHANGED inp

\* let vm = vp.to_montgomery()
ConvVecToMontgomery ==
    /\ pc = "direct"
    /\ store' = vec_to_montgomery(Begin(store), "VM", "VP")
    /\ pc' = "vmont"
    /\ UNCHANGED inp

\* let vt = vm.to_twisted_edward()
ConvVecToTwistedEdward ==
    /\ pc = "vmont"
    /\ store' = vec_to_twisted_edward(Begin(store), "VT", "VM")
    /\ pc' = "vted"
    /\ UNCHANGED inp

\* let mut out = VBn254Fr::new(); neq_vec(&mut out, &vx, &vy)
ConvNeq ==
    /\ pc = "vted"
    /\ store' = neq_vec(VBn254Fr_new(Begin(store), "out"), "out", "vx", "vy")
    /\ pc' = "done"
    /\ UNCHANGED inp

ConvNext ==
    \/ ConvArgs \/ ConvToMontgomery \/ ConvToTwistedEdward \/ ConvFromMontgomery
    \/ ConvVecToMontgomery \/ ConvVecToTwistedEdward \/ ConvNeq

SpecConv == ConvInit /\ [][ConvNext]_vars

Quot(a, b) == ((a % FIELD_P) * InvF(b % FIELD_P)) % FIELD_P

\* The point of lane l of a batch point.
LanePoint(S, q, l) == <<V(S, X(q))[l], V(S, Y(q))[l]>>

LaneInput(l) == IF l = 1 THEN inp.p ELSE Exchanged(inp.p)

\* x # 0, y # 1 and y # -1
Convertible(q) == q[1] # 0 /\ q[2] # 1 /\ q[2] # FIELD_P - 1

C30_RoundTrip ==
    /\ pc = "ted" /\ Convertible(inp.p) =>
          PointV(store, "T") = inp.p /\ ~store.failed
    /\ pc = "vted" =>
          \A l \in Lanes :
             Convertible(LaneInput(l)) => LanePoint(store, "VT", l) = LaneInput(l)

C30_Witness ==
    /\ pc = "vted"
    /\ inp.p = <<2, 3>>
    /\ PointV(store, "M") = <<11, 12>>
    /\ PointV(store, "T") = <<2, 3>>
    /\ LanePoint(store, "VT", 1) = <<2, 3>>
    /\ LanePoint(store, "VT", 2) = <<3, 2>>
    /\ LanePoint(store, "VM", 2) # LanePoint(store, "VT", 2)

\* C28 as stated: for x and y in {0, 1} in every lane, neq_vec(out, x, y)
\* is 1 where x # y and 0 where x = y.
C28_NeqVec ==
    pc = "done" =>
        \A l \in Lanes : V(store, "out")[l] = (IF inp.xb[l] # inp.yb[l] THEN 1 ELSE 0)

(***************************************************************************)
(* SHA-256 (sha2.rs): the blocks handed to the compression function.  The  *)
(* compression itself is not computed: sha256_compress is recorded as the  *)
(* 64 bytes it loads from its argument.                                    *)
(***************************************************************************)
SHA_BLOCK == 64

SHA_LENGTH_AT == 60

SHA_MARK == 128

\* store32h: x in big-endian order at y[offset .. offset + 3]; byte k of the
\* buffer is element k + 1 of the sequence.
store32h(x, y, offset) ==
    [k \in 1..Len(y) |->
        CASE k = offset + 1 -> (x \div (256 * 256 * 256)) % 256
          [] k = offset + 2 -> (x \div (256 * 256)) % 256
          [] k = offset + 3 -> (x \div 256) % 256
          [] k = offset + 4 -> x % 256
          [] OTHER -> y[k]]

\* sha256_compress on the slice buff: the sixteen words it loads are the
\* first 64 bytes.
sha256_compress(blocks, buff) == Append(blocks, SubSeq(buff, 1, SHA_BLOCK))

\* while remaining_len >= 64 { compress(&input[input_ptr..]); .. }
RECURSIVE sha_full_blocks(_, _, _, _)
sha_full_blocks(blocks, input, input_ptr, remaining_len) ==
    IF remaining_len < SHA_BLOCK
    THEN [blocks |-> blocks, input_ptr |-> input_ptr, remaining_len |-> remaining_len]
    ELSE sha_full_blocks(sha256_compress(blocks, SubSeq(input, input_ptr + 1, Len(input))),
                         input, input_ptr + SHA_BLOCK, remaining_len - SHA_BLOCK)

\* buf[k] = 0 for len <= k < upto
sha_zero_fill(buf, len, upto) ==
    [k \in 1..Len(buf) |-> IF k - 1 >= len /\ k - 1 < upto THEN 0 ELSE buf[k]]

\* ligetron_sha2_256 from `sha256_buf[len] = 0x80` on: the marker, the
\* extra block if len > 60, zeros up to 60, the length at 60 .. 63.
sha_finish(blocks, buf0, remaining_len, sha256_length) ==
    LET buf1  == [buf0 EXCEPT ![remaining_len + 1] = SHA_MARK]
        len1  == remaining_len + 1
        extra == len1 > SHA_LENGTH_AT
        blocks2 == IF extra
                   THEN sha256_compress(blocks, sha_zero_fill(buf1, len1, SHA_BLOCK))
                   ELSE blocks
        buf2  == IF extra THEN sha_zero_fill(buf1, len1, SHA_BLOCK) ELSE buf1
        len2  == IF extra THEN 0 ELSE len1
    IN  sha256_compress(blocks2,
            store32h(sha256_length, sha_zero_fill(buf2, len2, SHA_LENGTH_AT), SHA_LENGTH_AT))

\* ligetron_sha2_256(out, input, len): the blocks compressed, in order.
\* sha256_length is a u32 and does not wrap for len below 2^29.
ligetron_sha2_256(input, len) ==
    LET full == sha_full_blocks(<<>>, input, 0, len)
        buf  == [k \in 1..SHA_BLOCK |->
                    IF k - 1 < full.remaining_len THEN input[full.input_ptr + k] ELSE 0]
    IN  sha_finish(full.blocks, buf, full.remaining_len,
                   SHA_BLOCK * 8 * Len(full.blocks) + full.remaining_len * 8)

MaxShaLen == 130

\* Input bytes that are neither 0 nor the marker.
ShaInput(len, fill) == [i \in 1..len |-> 1 + ((i + fill) % 127)]

ShaInit ==
    /\ store = [blocks |-> <<>>]
    /\ pc = "init"
    /\ inp \in [len : 0..MaxShaLen, fill : {0, 1}]

\* sha2_256(&input)
ShaHash ==
    /\ pc = "init"
    /\ store' = [blocks |-> ligetron_sha2_256(ShaInput(inp.len, inp.fill), inp.len)]
    /\ pc' = "done"
    /\ UNCHANGED inp

ShaNext == ShaHash

SpecSha == ShaInit /\ [][ShaNext]_vars

\* The standard padded message: the input, 0x80, zeros up to 56 modulo 64,
\* and the bit length in 8 bytes, highest first.
StandardPadded(input) ==
    input \o <<SHA_MARK>>
          \o [k \in 1..((2 * SHA_BLOCK - 9 - (Len(input) % SHA_BLOCK)) % SHA_BLOCK) |-> 0]
          \o <<0, 0, 0, 0>>
          \o SubSeq(store32h(Len(input) * 8, <<0, 0, 0, 0>>, 0), 1, 4)

StandardBlocks(input) ==
    [j \in 1..(Len(StandardPadded(input)) \div SHA_BLOCK) |->
        SubSeq(StandardPadded(input), SHA_BLOCK * (j - 1) + 1, SHA_BLOCK * j)]

\* C29 as stated: the blocks that ligetron_sha2_256 compresses are those of
\* the standard SHA-256 padded message, for every input length.
C29_StandardPadding ==
    pc = "done" => store.blocks = StandardBlocks(ShaInput(inp.len, inp.fill))

====
